---- MODULE Spec2Model ----
(***************************************************************************)
(* A model of the richiefi/imageproxy request pipeline: request model,     *)
(* access control, the serving handler, the transforming transport and the *)
(* remote (Lambda) executor.                                               *)
(*                                                                         *)
(* Strings are sequences of one-character strings, so that prefix, suffix, *)
(* split and slice operations are computed as the Go code computes them.   *)
(***************************************************************************)
EXTENDS Integers, Sequences, FiniteSets, TLC

VARIABLES
    fin,      \* input of the pure function under check (a record with an op tag)
    fout,     \* its result, [done |-> FALSE] until the function has been applied
    cfg,      \* the Proxy fields set by main(): lists, key, ScaleUp, prefix table
    pc,       \* position of the request being served
    req,      \* the inbound *http.Request
    ireq,     \* the imageproxy Request built by NewRequest (URL, Options)
    out,      \* the transport's view: outbound URL, parsed options, upstream replies
    resp,     \* what the client has received: status, headers, body
    seen,     \* client memory: the last response that carried an ETag
    sem,      \* number of pool slots taken
    tasks     \* position of each concurrent transform task

vars == <<fin, fout, cfg, pc, req, ireq, out, resp, seen, sem, tasks>>

-----------------------------------------------------------------------------
(* Strings *)

HasPrefix(s, p) == Len(s) >= Len(p) /\ SubSeq(s, 1, Len(p)) = p

HasSuffix(s, p) == Len(s) >= Len(p) /\ SubSeq(s, Len(s) - Len(p) + 1, Len(s)) = p

TrimPrefix(s, p) == IF HasPrefix(s, p) THEN SubSeq(s, Len(p) + 1, Len(s)) ELSE s

TrimSuffix(s, p) == IF HasSuffix(s, p) THEN SubSeq(s, 1, Len(s) - Len(p)) ELSE s

\* s[n:] in Go, for 0 <= n <= len(s)
SliceFrom(s, n) == SubSeq(s, n + 1, Len(s))

\* strings.IndexByte: 1-based position of the first c in s, 0 when absent
Index(s, c) ==
    IF \E i \in 1..Len(s) : s[i] = c
    THEN CHOOSE i \in 1..Len(s) : s[i] = c /\ \A j \in 1..(i - 1) : s[j] # c
    ELSE 0

RECURSIVE Split(_, _)
\* strings.Split(s, c) for a one-character separator
Split(s, c) ==
    LET i == Index(s, c)
    IN  IF i = 0 THEN <<s>>
        ELSE <<SubSeq(s, 1, i - 1)>> \o Split(SliceFrom(s, i), c)

RECURSIVE Join(_, _)
\* strings.Join(parts, sep)
Join(parts, sep) ==
    IF Len(parts) = 0 THEN <<>>
    ELSE IF Len(parts) = 1 THEN parts[1]
    ELSE parts[1] \o sep \o Join(Tail(parts), sep)

RECURSIVE TrimRight(_, _)
\* strings.TrimRight(s, c) for a one-character cutset
TrimRight(s, c) ==
    IF Len(s) > 0 /\ s[Len(s)] = c THEN TrimRight(SubSeq(s, 1, Len(s) - 1), c) ELSE s

RECURSIVE TrimLeft(_, _)
\* strings.TrimLeft(s, c) for a one-character cutset
TrimLeft(s, c) ==
    IF Len(s) > 0 /\ s[1] = c THEN TrimLeft(Tail(s), c) ELSE s

RECURSIVE Repeat(_, _)
\* strings.Repeat(c, n)
Repeat(c, n) == IF n <= 0 THEN <<>> ELSE <<c>> \o Repeat(c, n - 1)

Letters ==
    {"a","b","c","d","e","f","g","h","i","j","k","l","m",
     "n","o","p","q","r","s","t","u","v","w","x","y","z",
     "A","B","C","D","E","F","G","H","I","J","K","L","M",
     "N","O","P","Q","R","S","T","U","V","W","X","Y","Z"}

Digits == <<"0","1","2","3","4","5","6","7","8","9">>

IsDigit(c) == \E i \in 1..10 : Digits[i] = c

DigitVal(c) == (CHOOSE i \in 1..10 : Digits[i] = c) - 1

-----------------------------------------------------------------------------
(* encoding/base64, URLEncoding (padded, not strict) *)

B64URL ==
    <<"A","B","C","D","E","F","G","H","I","J","K","L","M",
      "N","O","P","Q","R","S","T","U","V","W","X","Y","Z",
      "a","b","c","d","e","f","g","h","i","j","k","l","m",
      "n","o","p","q","r","s","t","u","v","w","x","y","z",
      "0","1","2","3","4","5","6","7","8","9","-","_">>

IsB64(c) == \E i \in 1..64 : B64URL[i] = c

B64Val(c) == (CHOOSE i \in 1..64 : B64URL[i] = c) - 1

IsNewline(c) == c = "\n" \/ c = "\r"

\* The bytes of one quantum of n symbols (2, 3 or 4), most significant first.
QuantumBytes(q, n) ==
    LET v(i) == IF i <= n THEN B64Val(q[i]) ELSE 0
        val  == ((v(1) * 64 + v(2)) * 64 + v(3)) * 64 + v(4)
        all  == <<val \div 65536, (val \div 256) % 256, val % 256>>
    IN  SubSeq(all, 1, n - 1)

RECURSIVE decodeQuanta(_, _)
\* The decoder's loop over the input with newlines skipped: s is what is left,
\* acc the bytes so far.  A quantum is four symbols; "=" may stand for the last
\* one or two symbols of the last quantum and nothing may follow it.
decodeQuanta(s, acc) ==
    IF Len(s) = 0 THEN [err |-> FALSE, bytes |-> acc]
    ELSE IF ~IsB64(s[1]) THEN [err |-> TRUE, bytes |-> acc]              \* j = 0: pad or bad symbol
    ELSE IF Len(s) < 2 \/ ~IsB64(s[2]) THEN [err |-> TRUE, bytes |-> acc] \* j = 1
    ELSE IF Len(s) < 3 THEN [err |-> TRUE, bytes |-> acc]                 \* input ends, padding required
    ELSE IF s[3] = "=" THEN
        IF Len(s) < 4 \/ s[4] # "=" THEN [err |-> TRUE, bytes |-> acc]    \* "==" expected
        ELSE [err |-> Len(s) > 4, bytes |-> acc \o QuantumBytes(s, 2)]     \* trailing garbage
    ELSE IF ~IsB64(s[3]) THEN [err |-> TRUE, bytes |-> acc]
    ELSE IF Len(s) < 4 THEN [err |-> TRUE, bytes |-> acc]
    ELSE IF s[4] = "=" THEN [err |-> Len(s) > 4, bytes |-> acc \o QuantumBytes(s, 3)]
    ELSE IF ~IsB64(s[4]) THEN [err |-> TRUE, bytes |-> acc]
    ELSE decodeQuanta(SliceFrom(s, 4), acc \o QuantumBytes(s, 4))

\* base64.URLEncoding.DecodeString
DecodeString(s) == decodeQuanta(SelectSeq(s, LAMBDA c : ~IsNewline(c)), <<>>)

RECURSIVE EncodeToString(_)
\* base64.URLEncoding.EncodeToString
EncodeToString(b) ==
    LET ch(v) == B64URL[v + 1]
    IN  IF Len(b) = 0 THEN <<>>
        ELSE IF Len(b) = 1 THEN
            <<ch(b[1] \div 4), ch((b[1] % 4) * 16), "=", "=">>
        ELSE IF Len(b) = 2 THEN
            <<ch(b[1] \div 4), ch((b[1] % 4) * 16 + b[2] \div 16), ch((b[2] % 16) * 4), "=">>
        ELSE
            <<ch(b[1] \div 4), ch((b[1] % 4) * 16 + b[2] \div 16),
              ch((b[2] % 16) * 4 + b[3] \div 64), ch(b[3] % 64)>>
            \o EncodeToString(SliceFrom(b, 3))

-----------------------------------------------------------------------------
(* crypto/hmac with sha256 *)

\* Every character the model's strings are written in, in ASCII order.
Alphabet ==
    <<"\n", "\r", " ", "!", "\"", "#", "%", "&", "*", "+", ",", "-", ".", "/",
      "0", "1", "2", "3", "4", "5", "6", "7", "8", "9", ":", "=", "?",
      "A", "B", "C", "D", "E", "F", "G", "H", "I", "J", "K", "L", "M",
      "N", "O", "P", "Q", "R", "S", "T", "U", "V", "W", "X", "Y", "Z", "_",
      "a", "b", "c", "d", "e", "f", "g", "h", "i", "j", "k", "l", "m",
      "n", "o", "p", "q", "r", "s", "t", "u", "v", "w", "x", "y", "z", "|">>

\* the rank of a character, ordered as its byte value
Code(c) == CHOOSE i \in 1..Len(Alphabet) : Alphabet[i] = c

\* The width of the modelled digest in bytes.  SHA-256 gives 32 bytes, which
\* base64-encode to 43 symbols and one "="; 2 bytes keep that shape (3 symbols
\* and one "=").
MacSize == 2

MacModulus == 256 ^ MacSize

RECURSIVE Digest(_, _)
\* A keyed digest: every character of key and message moves the state.
Digest(h, s) ==
    IF Len(s) = 0 THEN h
    ELSE Digest((h * 31 + Code(s[1]) + 7) % MacModulus, Tail(s))

\* mac := hmac.New(sha256.New, key); mac.Write(msg); mac.Sum(nil)
HMAC(key, msg) ==
    LET h == Digest(Digest(17, key \o <<"|">>), msg)
    IN  [i \in 1..MacSize |-> (h \div (256 ^ (MacSize - i))) % 256]

-----------------------------------------------------------------------------
(* net/url *)

ToLowerChar(c) ==
    IF \E i \in 1..26 : B64URL[i] = c
    THEN B64URL[(CHOOSE i \in 1..26 : B64URL[i] = c) + 26]
    ELSE c

ToLower(s) == [i \in 1..Len(s) |-> ToLowerChar(s[i])]

IsHex(c) == IsDigit(c) \/ c \in {"a","b","c","d","e","f","A","B","C","D","E","F"}

\* The characters of Alphabet outside letters, digits, "-", "_" and ".", each
\* with the two hex digits of its byte.
HexTable ==
    {<<"\n", "0", "A">>, <<"\r", "0", "D">>, <<" ", "2", "0">>, <<"!", "2", "1">>,
     <<"\"", "2", "2">>, <<"#", "2", "3">>, <<"%", "2", "5">>, <<"&", "2", "6">>,
     <<"*", "2", "A">>, <<"+", "2", "B">>, <<",", "2", "C">>, <<"/", "2", "F">>,
     <<":", "3", "A">>, <<"=", "3", "D">>, <<"?", "3", "F">>, <<"|", "7", "C">>}

\* url.shouldEscape(c, encodeFragment): reserved characters are left alone
NeedsEscape(c) == c \in {"\n", "\r", " ", "!", "\"", "#", "%", "*", "|"}

RECURSIVE escape(_)
\* url.escape(s, encodeFragment)
escape(s) ==
    IF Len(s) = 0 THEN <<>>
    ELSE IF NeedsEscape(s[1])
         THEN LET e == CHOOSE e \in HexTable : e[1] = s[1]
              IN  <<"%", e[2], e[3]>> \o escape(Tail(s))
         ELSE <<s[1]>> \o escape(Tail(s))

RECURSIVE validEscapes(_)
\* url.unescape fails on a "%" that two hex digits do not follow
validEscapes(s) ==
    IF Len(s) = 0 THEN TRUE
    ELSE IF s[1] = "%"
         THEN Len(s) >= 3 /\ IsHex(s[2]) /\ IsHex(s[3]) /\ validEscapes(SliceFrom(s, 3))
         ELSE validEscapes(Tail(s))

RECURSIVE unescape(_)
\* url.unescape of a string with valid escapes; codes of bytes outside Alphabet
\* are kept as written.
unescape(s) ==
    IF Len(s) = 0 THEN <<>>
    ELSE IF s[1] = "%" /\ \E e \in HexTable : e[2] = s[2] /\ e[3] = s[3]
         THEN <<(CHOOSE e \in HexTable : e[2] = s[2] /\ e[3] = s[3])[1]>>
              \o unescape(SliceFrom(s, 3))
         ELSE <<s[1]>> \o unescape(Tail(s))

\* url.URL.  Path holds the path in its escaped form (what EscapedPath returns).
emptyURL ==
    [Scheme |-> <<>>, Opaque |-> <<>>, Host |-> <<>>, Path |-> <<>>,
     RawQuery |-> <<>>, Fragment |-> <<>>]

parseError == [err |-> TRUE, url |-> emptyURL]

RECURSIVE getscheme(_, _)
\* url.getscheme, scanning from position i (1-based): [err, scheme, rest]
getscheme(rawurl, i) ==
    IF i > Len(rawurl) THEN [err |-> FALSE, scheme |-> <<>>, rest |-> rawurl]
    ELSE LET c == rawurl[i]
         IN  IF c \in Letters THEN getscheme(rawurl, i + 1)
             ELSE IF IsDigit(c) \/ c \in {"+", "-", "."}
                  THEN IF i = 1 THEN [err |-> FALSE, scheme |-> <<>>, rest |-> rawurl]
                       ELSE getscheme(rawurl, i + 1)
             ELSE IF c = ":"
                  THEN IF i = 1 THEN [err |-> TRUE, scheme |-> <<>>, rest |-> <<>>]
                       ELSE [err |-> FALSE, scheme |-> SubSeq(rawurl, 1, i - 1),
                             rest |-> SliceFrom(rawurl, i)]
             ELSE [err |-> FALSE, scheme |-> <<>>, rest |-> rawurl]

\* Characters parseHost refuses in a host.
BadHostChars == {" ", "%", "|", "#", "?", "\n", "\r"}

\* url.parse after the scheme and the query are split off: rest is an
\* authority and path, with a scheme or starting with "/"
parseHierarchical(scheme, rest, query) ==
    LET hasAuthority == HasPrefix(rest, <<"/", "/">>)
                        /\ (scheme # <<>> \/ ~HasPrefix(rest, <<"/", "/", "/">>))
        afterSlashes == SliceFrom(rest, 2)
        cut   == Index(afterSlashes, "/")
        authority == IF cut = 0 THEN afterSlashes ELSE SubSeq(afterSlashes, 1, cut - 1)
        path  == IF ~hasAuthority THEN rest
                 ELSE IF cut = 0 THEN <<>> ELSE SliceFrom(afterSlashes, cut - 1)
    IN  IF hasAuthority /\ \E i \in 1..Len(authority) : authority[i] \in BadHostChars
        THEN parseError
        ELSE IF ~validEscapes(path) THEN parseError
        ELSE [err |-> FALSE,
              url |-> [emptyURL EXCEPT !.Scheme = ToLower(scheme),
                                       !.Host = IF hasAuthority THEN authority ELSE <<>>,
                                       !.Path = path, !.RawQuery = query]]

\* url.parse after getscheme: rest is what follows the scheme, query included
parseAfterScheme(scheme, rest0, q) ==
    LET rest  == IF q = 0 THEN rest0 ELSE SubSeq(rest0, 1, q - 1)
        query == IF q = 0 THEN <<>> ELSE SliceFrom(rest0, q)
        colon == Index(rest, ":")
        slash == Index(rest, "/")
    IN  IF ~HasPrefix(rest, <<"/">>) /\ scheme # <<>>
        THEN [err |-> FALSE,
              url |-> [emptyURL EXCEPT !.Scheme = ToLower(scheme),
                                       !.Opaque = rest, !.RawQuery = query]]
        ELSE IF ~HasPrefix(rest, <<"/">>) /\ colon > 0 /\ (slash = 0 \/ colon < slash)
             THEN parseError            \* first path segment cannot contain colon
        ELSE parseHierarchical(scheme, rest, query)

\* the result of getscheme handed on to the rest of url.parse
parseScheme(sch) ==
    IF sch.err THEN parseError
    ELSE parseAfterScheme(sch.scheme, sch.rest, Index(sch.rest, "?"))

\* url.parse(rawurl, viaRequest = false) of a string without fragment
parseNoFragment(rawurl) == parseScheme(getscheme(rawurl, 1))

\* url.Parse once the fragment is cut off: p is the parse of what precedes it
parseFragment(p, frag) ==
    IF p.err THEN parseError
    ELSE IF ~validEscapes(frag) THEN parseError
    ELSE [err |-> FALSE, url |-> [p.url EXCEPT !.Fragment = unescape(frag)]]

\* the two sides of the first "#" of rawurl, at position h (0 when absent)
cutFragment(rawurl, h) ==
    parseFragment(parseNoFragment(IF h = 0 THEN rawurl ELSE SubSeq(rawurl, 1, h - 1)),
                  IF h = 0 THEN <<>> ELSE SliceFrom(rawurl, h))

\* url.Parse
Parse(rawurl) == cutFragment(rawurl, Index(rawurl, "#"))

\* URL.String
URLString(u) ==
    LET scheme == IF u.Scheme # <<>> THEN u.Scheme \o <<":">> ELSE <<>>
        slashes == IF (u.Scheme # <<>> \/ u.Host # <<>>) /\ (u.Host # <<>> \/ u.Path # <<>>)
                   THEN <<"/", "/">> ELSE <<>>
        sep    == IF u.Path # <<>> /\ u.Path[1] # "/" /\ u.Host # <<>> THEN <<"/">> ELSE <<>>
        body   == IF u.Opaque # <<>> THEN u.Opaque
                  ELSE slashes \o u.Host \o sep \o u.Path
        query  == IF u.RawQuery # <<>> THEN <<"?">> \o u.RawQuery ELSE <<>>
        frag   == IF u.Fragment # <<>> THEN <<"#">> \o escape(u.Fragment) ELSE <<>>
    IN  scheme \o body \o query \o frag

\* URL.IsAbs
IsAbs(u) == u.Scheme # <<>>

-----------------------------------------------------------------------------
(* options.Options *)

emptyOptions ==
    [Width |-> 0, Height |-> 0, Fit |-> FALSE, Rotate |-> 0,
     FlipVertical |-> FALSE, FlipHorizontal |-> FALSE, Quality |-> 0,
     Signature |-> <<>>, ScaleUp |-> FALSE, Format |-> <<>>,
     CropX |-> 0, CropY |-> 0, CropWidth |-> 0, CropHeight |-> 0,
     SmartCrop |-> FALSE]

-----------------------------------------------------------------------------
(* Access control *)

RECURSIVE validHostBelowOnly(_, _)
\* a "*." entry admits the hosts below the domain and not the domain itself
validHostBelowOnly(hosts, u) ==
    IF Len(hosts) = 0 THEN FALSE
    ELSE IF u.Host = hosts[1] THEN TRUE
    ELSE IF HasPrefix(hosts[1], <<"*", ".">>) /\ HasSuffix(u.Host, SliceFrom(hosts[1], 1))
         THEN TRUE
    ELSE validHostBelowOnly(Tail(hosts), u)

RECURSIVE validHost(_, _)
\* validHost returns whether the host in u matches one of hosts.
validHost(hosts, u) ==
    IF Len(hosts) = 0 THEN FALSE
    ELSE IF u.Host = hosts[1] THEN TRUE
    ELSE IF HasPrefix(hosts[1], <<"*", ".">>) /\ HasSuffix(u.Host, SliceFrom(hosts[1], 2))
         THEN TRUE
    ELSE validHost(Tail(hosts), u)

\* validReferrer: whether the referrer from the request is in the host list.
validReferrer(hosts, r) ==
    LET p == Parse(r.Referer)
    IN  IF p.err THEN FALSE ELSE validHost(hosts, p.url)

\* the signature handed to the decoder as given
noPadding(sig) == sig

\* the padding step of validSignature
addPadding(sig) ==
    LET m == Len(sig) % 4
    IN  IF m # 0 THEN sig \o Repeat("=", 4 - m) ELSE sig

\* validSignature returns whether the request signature is valid.
validSignature(key, r) ==
    LET got  == DecodeString(addPadding(r.Options.Signature))
        want == HMAC(key, URLString(r.URL))
    IN  IF got.err THEN FALSE ELSE got.bytes = want

\* the whitelist consulted before the referrer
allowedHostFirst(p, r) ==
    IF Len(p.Whitelist) = 0 /\ Len(p.SignatureKey) = 0 THEN TRUE
    ELSE IF Len(p.Whitelist) > 0 /\ validHost(p.Whitelist, r.URL) THEN TRUE
    ELSE IF Len(p.Whitelist) = 0 /\ Len(p.SignatureKey) = 0 THEN TRUE
    ELSE IF Len(p.Referrers) > 0 /\ ~validReferrer(p.Referrers, r.Original) THEN FALSE
    ELSE IF Len(p.SignatureKey) > 0 /\ validSignature(p.SignatureKey, r) THEN TRUE
    ELSE FALSE

\* Proxy.allowed: TRUE when it returns nil, FALSE when it returns an error.
allowed(p, r) ==
    IF Len(p.Referrers) > 0 /\ ~validReferrer(p.Referrers, r.Original) THEN FALSE
    ELSE IF Len(p.Whitelist) = 0 /\ Len(p.SignatureKey) = 0 THEN TRUE
    ELSE IF Len(p.Whitelist) > 0 /\ validHost(p.Whitelist, r.URL) THEN TRUE
    ELSE IF Len(p.SignatureKey) > 0 /\ validSignature(p.SignatureKey, r) THEN TRUE
    ELSE FALSE

-----------------------------------------------------------------------------
(* The strings the inputs are written in *)

http  == <<"h", "t", "t", "p">>
https == <<"h", "t", "t", "p", "s">>
ftp   == <<"f", "t", "p">>
css   == <<":", "/", "/">>

\* hosts
hGood == <<"g">>
hSub  == <<"x", ".", "b", ".", "t">>
hEvil == <<"e">>
wildB == <<"*", ".", "b", ".", "t">>

Key1 == <<"c", "0", "f", "f", "e", "e">>

\* the request r handed to allowed and validSignature
accessRequest(url, sig, referer) ==
    [URL |-> Parse(url).url,
     Options |-> [emptyOptions EXCEPT !.Signature = sig],
     Original |-> [Referer |-> referer]]

\* base64urlencode(hmac(key, url)), as the README tells clients to sign
Sign(key, url) == EncodeToString(HMAC(key, url))

\* a signature with its trailing padding removed
TrimPadding(sig) == TrimRight(sig, "=")

-----------------------------------------------------------------------------
(* Values of the variables a specification does not use *)

idleFn == fin = [op |-> "none"] /\ fout = [done |-> FALSE, val |-> FALSE]

idleServer ==
    /\ cfg = [op |-> "none"]
    /\ pc = "off"
    /\ req = [op |-> "none"]
    /\ ireq = [op |-> "none"]
    /\ out = [op |-> "none"]
    /\ resp = [op |-> "none"]
    /\ seen = [op |-> "none"]

idlePool == sem = 0 /\ tasks = <<>>

serverVars == <<cfg, pc, req, ireq, out, resp, seen>>

poolVars == <<sem, tasks>>

-----------------------------------------------------------------------------
(* validSignature on drawn inputs *)

MaxSigLen == 4

SigAlphabet == {"A", "_", "=", "!", "\n"}

SigURLs == {http \o css \o <<"t", "/", "i">>, http \o css \o <<"t", "/", "i", "?", "a", "=", "1">>}

RECURSIVE SeqsUpTo(_, _)
\* every sequence over S of length at most n
SeqsUpTo(S, n) ==
    IF n = 0 THEN {<<>>}
    ELSE LET shorter == SeqsUpTo(S, n - 1)
         IN  shorter \cup {t \o <<c>> : t \in shorter, c \in S}

\* the signatures a client may send for url: short arbitrary texts, the right
\* signature with and without padding, and near misses of it
SigInputs(key, url) ==
    LET good == Sign(key, url)
        bare == TrimPadding(good)
    IN  SeqsUpTo(SigAlphabet, MaxSigLen)
        \cup {good, bare, good \o <<"=">>, good \o <<"\n">>, bare \o <<"\n">>,
              <<"\n">> \o bare, bare \o <<"!">>, Sign(hEvil, url),
              TrimPadding(Sign(hEvil, url)), <<"A">> \o bare, good \o good}

InitSig ==
    /\ fin \in UNION {{[op |-> "validSignature", key |-> Key1, url |-> u, sig |-> g] :
                            g \in SigInputs(Key1, u)} : u \in SigURLs}
    /\ fout = [done |-> FALSE, val |-> FALSE]
    /\ idleServer /\ idlePool

ApplyValidSignature ==
    /\ fin.op = "validSignature" /\ ~fout.done
    /\ fout' = [done |-> TRUE,
                val |-> validSignature(fin.key, accessRequest(fin.url, fin.sig, <<>>))]
    /\ UNCHANGED <<fin, serverVars, poolVars>>

SpecSig == InitSig /\ [][ApplyValidSignature]_vars

-----------------------------------------------------------------------------
(* Proxy.allowed on drawn inputs *)

AccessURLs == {http \o css \o h \o <<"/", "i">> : h \in {hGood, hSub, hEvil}}

AccessReferers ==
    {<<>>, <<":", "x">>, <<"M", "!", "!">>, http \o css \o <<"g", "%", "/", "f">>}
    \cup {http \o css \o h \o <<"/", "f">> : h \in {hGood, hSub, hEvil}}

HostLists == {<<>>, <<hGood>>, <<wildB, hGood>>}

InitAllowed ==
    /\ fin \in {[op |-> "allowed",
                 p |-> [Whitelist |-> w, Referrers |-> rf, SignatureKey |-> k],
                 url |-> u, sig |-> g, referer |-> h] :
                    w \in HostLists, rf \in HostLists, k \in {<<>>, Key1},
                    u \in AccessURLs, h \in AccessReferers,
                    g \in {<<>>, <<"A", "A", "A", "A">>}
                          \cup {TrimPadding(Sign(Key1, v)) : v \in AccessURLs}}
    /\ fout = [done |-> FALSE, val |-> FALSE]
    /\ idleServer /\ idlePool

ApplyAllowed ==
    /\ fin.op = "allowed" /\ ~fout.done
    /\ fout' = [done |-> TRUE,
                val |-> allowed(fin.p, accessRequest(fin.url, fin.sig, fin.referer))]
    /\ UNCHANGED <<fin, serverVars, poolVars>>

SpecAllowed == InitAllowed /\ [][ApplyAllowed]_vars

-----------------------------------------------------------------------------
(* Request model: prefix table, remote URL resolution *)

RECURSIVE LastIndex(_, _)
\* strings.LastIndex(s, c): 1-based position of the last c in s, 0 when absent
LastIndex(s, c) ==
    IF Len(s) = 0 THEN 0
    ELSE IF s[Len(s)] = c THEN Len(s)
    ELSE LastIndex(SubSeq(s, 1, Len(s) - 1), c)

RECURSIVE removeDotSegments(_, _)
\* the loop of url.resolvePath over the elements of the path
removeDotSegments(src, dst) ==
    IF Len(src) = 0 THEN dst
    ELSE IF src[1] = <<".">> THEN removeDotSegments(Tail(src), dst)
    ELSE IF src[1] = <<".", ".">>
         THEN removeDotSegments(Tail(src),
                                IF Len(dst) > 0 THEN SubSeq(dst, 1, Len(dst) - 1) ELSE dst)
    ELSE removeDotSegments(Tail(src), Append(dst, src[1]))

\* url.resolvePath(base, ref)
resolvePath(base, ref) ==
    LET full == IF Len(ref) = 0 THEN base
                ELSE IF ref[1] # "/" THEN SubSeq(base, 1, LastIndex(base, "/")) \o ref
                ELSE ref
        src  == Split(full, "/")
        dst0 == removeDotSegments(src, <<>>)
        last == src[Len(src)]
        dst  == IF last = <<".">> \/ last = <<".", ".">> THEN Append(dst0, <<>>) ELSE dst0
    IN  IF Len(full) = 0 THEN <<>>
        ELSE <<"/">> \o TrimPrefix(Join(dst, <<"/">>), <<"/">>)

\* URL.ResolveReference (go 1.9)
ResolveReference(u, ref) ==
    LET url0 == IF ref.Scheme = <<>> THEN [ref EXCEPT !.Scheme = u.Scheme] ELSE ref
    IN  IF ref.Scheme # <<>> \/ ref.Host # <<>>
        THEN [url0 EXCEPT !.Path = resolvePath(ref.Path, <<>>)]
        ELSE IF ref.Opaque # <<>>
             THEN [url0 EXCEPT !.Host = <<>>, !.Path = <<>>]
        ELSE LET url1 == IF ref.Path = <<>>
                         THEN [url0 EXCEPT !.RawQuery = u.RawQuery,
                                           !.Fragment = IF ref.Fragment = <<>>
                                                        THEN u.Fragment ELSE ref.Fragment]
                         ELSE url0
             IN  [url1 EXCEPT !.Host = u.Host, !.Path = resolvePath(u.Path, ref.Path)]

\* ReplaceAllString of reCleanedURL, `^(https?):/+([^/])`, by "$1://$2"
reCleanedURL(s) ==
    LET scheme == IF HasPrefix(s, <<"h", "t", "t", "p", "s", ":">>) THEN <<"h", "t", "t", "p", "s">>
                  ELSE IF HasPrefix(s, <<"h", "t", "t", "p", ":">>) THEN <<"h", "t", "t", "p">>
                  ELSE <<>>
        rest   == SliceFrom(s, Len(scheme) + 1)
        tail   == TrimLeft(rest, "/")
    IN  IF scheme # <<>> /\ Len(tail) < Len(rest) /\ Len(tail) > 0
        THEN scheme \o <<":", "/", "/">> \o tail
        ELSE s

\* parseURL parses s as a URL, handling URLs munged by a slash-collapsing server
parseURL(s) == Parse(reCleanedURL(s))

\* no SourceConfiguration matched
noConfig ==
    [found |-> FALSE, Prefix |-> <<>>, HasBaseURL |-> FALSE, BaseURL |-> emptyURL,
     DefaultOptions |-> emptyOptions, StripPublication |-> FALSE]

RECURSIVE bestMatchingLoop(_, _, _, _)
\* the range loop of bestMatchingConfig over the table in iteration order
bestMatchingLoop(order, path, bestMatchLen, best) ==
    IF Len(order) = 0 THEN best
    ELSE LET config == order[1]
             urlPrefixWithoutTail == TrimRight(config.Prefix, "/")
             matchLen == Len(urlPrefixWithoutTail)
         IN  IF HasPrefix(path, urlPrefixWithoutTail) /\ ~(matchLen < bestMatchLen)
             THEN bestMatchingLoop(Tail(order), path, matchLen,
                                   [found |-> TRUE, Prefix |-> config.Prefix,
                                    HasBaseURL |-> config.HasBaseURL,
                                    BaseURL |-> config.BaseURL,
                                    DefaultOptions |-> config.DefaultOptions,
                                    StripPublication |-> config.StripPublication])
             ELSE bestMatchingLoop(Tail(order), path, bestMatchLen, best)

\* bestMatchingConfig; order is the order in which range visits the map
bestMatchingConfig(order, path) == bestMatchingLoop(order, path, -1, noConfig)

\* outcomes of a call: a panic, an error, or a value
panicked == [panic |-> TRUE, err |-> FALSE, url |-> emptyURL]

failed == [panic |-> FALSE, err |-> TRUE, url |-> emptyURL]

\* buildFinalAbsoluteURL from parseURL on: parsed is its result
resolveFinalURL(config, parsed) ==
    IF config.HasBaseURL
    THEN IF parsed.err THEN panicked                          \* ResolveReference(nil)
         ELSE [panic |-> FALSE, err |-> FALSE,
               url |-> ResolveReference(config.BaseURL, parsed.url)]
    ELSE [panic |-> FALSE, err |-> parsed.err, url |-> parsed.url]

\* buildFinalAbsoluteURL with the publication stripped: strippedPath has lost
\* its leading slashes, cut is the position of its first slash
stripPublication(config, strippedPath, cut) ==
    IF cut = 0 THEN panicked                                  \* parts[1] of one part
    ELSE resolveFinalURL(config, parseURL(SliceFrom(strippedPath, cut)))

\* buildFinalAbsoluteURL with the prefix stripped
stripPrefix(config, strippedPath) ==
    IF Len(strippedPath) < 1 THEN failed
    ELSE IF config.StripPublication
         THEN stripPublication(config, TrimLeft(strippedPath, "/"),
                               Index(TrimLeft(strippedPath, "/"), "/"))
    ELSE resolveFinalURL(config, parseURL(strippedPath))

\* buildFinalAbsoluteURL after bestMatchingConfig; path is EscapedPath()[1:]
buildWithConfig(config, path, urlPrefixWithoutTail) ==
    IF ~config.found
    THEN resolveFinalURL(noConfig, parseURL(path))
    ELSE IF Len(urlPrefixWithoutTail) > Len(path) THEN panicked   \* slice out of range
    ELSE stripPrefix(config, SliceFrom(path, Len(urlPrefixWithoutTail)))

\* the matching configuration handed on to the rest of buildFinalAbsoluteURL
buildWithMatch(config, originalPath) ==
    buildWithConfig(config, SliceFrom(originalPath, 1), TrimRight(config.Prefix, "/"))

\* buildFinalAbsoluteURL; originalPath is originalURL.EscapedPath()
buildFinalAbsoluteURL(order, originalPath) ==
    IF Len(originalPath) < 1 THEN panicked                    \* [1:] of ""
    ELSE buildWithMatch(bestMatchingConfig(order, originalPath), originalPath)

-----------------------------------------------------------------------------
(* Numbers in option values.  Option values are integers in this model; the *)
(* drawn inputs hold no fractions or exponents.                             *)

RECURSIVE digitsValue(_, _)
digitsValue(s, acc) ==
    IF Len(s) = 0 THEN acc ELSE digitsValue(Tail(s), acc * 10 + DigitVal(s[1]))

\* strconv.Atoi and strconv.ParseFloat on an integer literal: [ok, val], val = 0
\* when the text is not a number
ParseNumber(s) ==
    LET signed == Len(s) > 0 /\ s[1] \in {"+", "-"}
        digits == IF signed THEN Tail(s) ELSE s
        mag    == digitsValue(digits, 0)
    IN  IF Len(digits) > 0 /\ \A i \in 1..Len(digits) : IsDigit(digits[i])
        THEN [ok |-> TRUE, val |-> IF signed /\ s[1] = "-" THEN 0 - mag ELSE mag]
        ELSE [ok |-> FALSE, val |-> 0]

RECURSIVE formatNat(_)
formatNat(n) ==
    IF n < 10 THEN <<Digits[n + 1]>> ELSE formatNat(n \div 10) \o <<Digits[(n % 10) + 1]>>

\* fmt's %v and %d of a whole number
FormatNumber(n) == IF n < 0 THEN <<"-">> \o formatNat(0 - n) ELSE formatNat(n)

-----------------------------------------------------------------------------
(* net/url query strings *)

RECURSIVE plusToSpace(_)
plusToSpace(s) ==
    IF Len(s) = 0 THEN <<>>
    ELSE <<IF s[1] = "+" THEN " " ELSE s[1]>> \o plusToSpace(Tail(s))

\* url.QueryUnescape of a string with valid escapes
QueryUnescape(s) == unescape(plusToSpace(s))

\* strings.IndexAny(s, "&;"): 1-based position of the first separator, 0 when
\* absent
IndexSeparator(s) ==
    IF \E i \in 1..Len(s) : s[i] \in {"&", ";"}
    THEN CHOOSE i \in 1..Len(s) :
            s[i] \in {"&", ";"} /\ \A j \in 1..(i - 1) : s[j] \notin {"&", ";"}
    ELSE 0

RECURSIVE parseQuery(_)
\* url.parseQuery: [err, values], values the key/value pairs in query order
parseQuery(query) ==
    IF Len(query) = 0 THEN [err |-> FALSE, values |-> <<>>]
    ELSE LET amp   == IndexSeparator(query)
             pair  == IF amp = 0 THEN query ELSE SubSeq(query, 1, amp - 1)
             rest  == parseQuery(IF amp = 0 THEN <<>> ELSE SliceFrom(query, amp))
             eq    == Index(pair, "=")
             key   == IF eq = 0 THEN pair ELSE SubSeq(pair, 1, eq - 1)
             value == IF eq = 0 THEN <<>> ELSE SliceFrom(pair, eq)
         IN  IF Len(pair) = 0 THEN rest
             ELSE IF ~validEscapes(key) \/ ~validEscapes(value)
                  THEN [err |-> TRUE, values |-> rest.values]
             ELSE [err |-> rest.err,
                   values |-> <<<<QueryUnescape(key), QueryUnescape(value)>>>>
                              \o rest.values]

\* the keys of a url.Values
Keys(values) == {values[i][1] : i \in 1..Len(values)}

\* values[key], in query order
ValuesOf(values, key) ==
    LET hits == SelectSeq(values, LAMBDA kv : kv[1] = key)
    IN  [i \in 1..Len(hits) |-> hits[i][2]]

RECURSIVE Orders(_)
\* the orders in which a range loop may visit the keys S of a map
Orders(S) ==
    IF S = {} THEN {<<>>}
    ELSE UNION {{<<k>> \o t : t \in Orders(S \ {k})} : k \in S}

-----------------------------------------------------------------------------
(* options: ParseFormValues, Options.String, ParseOptions *)

\* the effect of one key/value pair on [o, modeSeen, dpr]
formValue(st, key, value) ==
    LET n == ParseNumber(value)
        cropValues == Split(value, ",")
    IN  IF key = <<"m", "o", "d", "e">>
        THEN [st EXCEPT !.modeSeen = TRUE,
                        !.o = IF value = <<"f", "i", "t">> THEN [st.o EXCEPT !.Fit = TRUE]
                              ELSE IF value \in {<<"c", "r", "o", "p">>, <<"s", "m", "a", "r", "t", "c", "r", "o", "p">>}
                                   THEN [st.o EXCEPT !.SmartCrop = TRUE]
                              ELSE st.o]
        ELSE IF key = <<"f", "l", "i", "p">>
        THEN [st EXCEPT !.o = IF value = <<"v">> THEN [st.o EXCEPT !.FlipVertical = TRUE]
                              ELSE IF value = <<"h">>
                                   THEN [st.o EXCEPT !.FlipHorizontal = TRUE]
                              ELSE st.o]
        ELSE IF key = <<"f", "o", "r", "m", "a", "t">>
        THEN [st EXCEPT !.o = IF value \in {<<"j", "p", "e", "g">>, <<"p", "n", "g">>, <<"t", "i", "f", "f">>}
                              THEN [st.o EXCEPT !.Format = value] ELSE st.o]
        ELSE IF key = <<"r", "o", "t", "a", "t", "e">> THEN [st EXCEPT !.o.Rotate = n.val]
        ELSE IF key = <<"q", "u", "a", "l", "i", "t", "y">> THEN [st EXCEPT !.o.Quality = n.val]
        ELSE IF key = <<"s", "i", "g", "n", "a", "t", "u", "r", "e">> THEN [st EXCEPT !.o.Signature = value]
        ELSE IF key = <<"c", "r", "o", "p">>
        THEN IF Len(cropValues) = 4
             THEN [st EXCEPT !.o.CropX = ParseNumber(cropValues[1]).val,
                             !.o.CropY = ParseNumber(cropValues[2]).val,
                             !.o.CropWidth = ParseNumber(cropValues[3]).val,
                             !.o.CropHeight = ParseNumber(cropValues[4]).val]
             ELSE st
        ELSE IF key = <<"w", "i", "d", "t", "h">> THEN [st EXCEPT !.o.Width = n.val]
        ELSE IF key = <<"h", "e", "i", "g", "h", "t">> THEN [st EXCEPT !.o.Height = n.val]
        ELSE IF key = <<"s", "i", "z", "e">>
        THEN IF n.ok THEN [st EXCEPT !.o.Width = n.val, !.o.Height = n.val] ELSE st
        ELSE IF key = <<"d", "p", "r">>
        THEN IF n.ok /\ n.val > 0 THEN [st EXCEPT !.dpr = n.val] ELSE st
        ELSE st

RECURSIVE formValues(_, _, _)
\* the inner loop of ParseFormValues over the values of one key
formValues(st, key, values) ==
    IF Len(values) = 0 THEN st
    ELSE formValues(formValue(st, key, values[1]), key, Tail(values))

RECURSIVE formKeys(_, _, _)
\* the outer loop of ParseFormValues over the keys in iteration order
formKeys(st, form, keyOrder) ==
    IF Len(keyOrder) = 0 THEN st
    ELSE formKeys(formValues(st, keyOrder[1], ValuesOf(form, keyOrder[1])),
                  form, Tail(keyOrder))

\* Fit becomes the default whether or not a mode was given
finishFitWithoutModeTest(st) ==
    [st.o EXCEPT !.Fit = @ \/ (st.o.Width > 0 /\ st.o.Height > 0),
                 !.Width = @ * st.dpr, !.Height = @ * st.dpr,
                 !.CropX = @ * st.dpr, !.CropY = @ * st.dpr,
                 !.CropWidth = @ * st.dpr, !.CropHeight = @ * st.dpr]

\* the device pixel ratio scales the size and not the crop rectangle
finishWithoutCropScale(st) ==
    [st.o EXCEPT !.Fit = @ \/ (~st.modeSeen /\ st.o.Width > 0 /\ st.o.Height > 0),
                 !.Width = @ * st.dpr, !.Height = @ * st.dpr]

\* the end of ParseFormValues: the Fit default and the device pixel ratio
finishFormValues(st) ==
    [st.o EXCEPT !.Fit = @ \/ (~st.modeSeen /\ st.o.Width > 0 /\ st.o.Height > 0),
                 !.Width = @ * st.dpr, !.Height = @ * st.dpr,
                 !.CropX = @ * st.dpr, !.CropY = @ * st.dpr,
                 !.CropWidth = @ * st.dpr, !.CropHeight = @ * st.dpr]

\* ParseFormValues; keyOrder is the order in which range visits form
ParseFormValues(form, defaultOptions, keyOrder) ==
    finishFormValues(formKeys([o |-> defaultOptions, modeSeen |-> FALSE, dpr |-> 1],
                              form, keyOrder))

\* Options.String
OptionsString(o) ==
    Join(<<FormatNumber(o.Width) \o <<"x">> \o FormatNumber(o.Height)>>
         \o (IF o.Fit THEN <<<<"f", "i", "t">>>> ELSE <<>>)
         \o (IF o.Rotate # 0 THEN <<<<"r">> \o FormatNumber(o.Rotate)>> ELSE <<>>)
         \o (IF o.FlipVertical THEN <<<<"f", "v">>>> ELSE <<>>)
         \o (IF o.FlipHorizontal THEN <<<<"f", "h">>>> ELSE <<>>)
         \o (IF o.Quality # 0 THEN <<<<"q">> \o FormatNumber(o.Quality)>> ELSE <<>>)
         \o (IF o.Signature # <<>> THEN <<<<"s">> \o o.Signature>> ELSE <<>>)
         \o (IF o.ScaleUp THEN <<<<"s", "c", "a", "l", "e", "U", "p">>>> ELSE <<>>)
         \o (IF o.Format # <<>> THEN <<o.Format>> ELSE <<>>)
         \o (IF o.CropX # 0 THEN <<<<"c", "x">> \o FormatNumber(o.CropX)>> ELSE <<>>)
         \o (IF o.CropY # 0 THEN <<<<"c", "y">> \o FormatNumber(o.CropY)>> ELSE <<>>)
         \o (IF o.CropWidth # 0 THEN <<<<"c", "w">> \o FormatNumber(o.CropWidth)>> ELSE <<>>)
         \o (IF o.CropHeight # 0 THEN <<<<"c", "h">> \o FormatNumber(o.CropHeight)>> ELSE <<>>)
         \o (IF o.SmartCrop THEN <<<<"s", "c">>>> ELSE <<>>),
         <<",">>)

\* Options.Transform
Transform(o) ==
    \/ o.Width # 0 \/ o.Height # 0 \/ o.Rotate # 0
    \/ o.FlipHorizontal \/ o.FlipVertical \/ o.Quality # 0 \/ o.Format # <<>>
    \/ o.CropX # 0 \/ o.CropY # 0 \/ o.CropWidth # 0 \/ o.CropHeight # 0

\* one pass of the switch in ParseOptions
parseOption(options, opt) ==
    LET x == Index(opt, "x")
        w == SubSeq(opt, 1, x - 1)
        h == SliceFrom(opt, x)
        size == ParseNumber(opt)
    IN  IF Len(opt) = 0 THEN options
        ELSE IF opt = <<"f", "i", "t">> THEN [options EXCEPT !.Fit = TRUE]
        ELSE IF opt = <<"f", "v">> THEN [options EXCEPT !.FlipVertical = TRUE]
        ELSE IF opt = <<"f", "h">> THEN [options EXCEPT !.FlipHorizontal = TRUE]
        ELSE IF opt = <<"s", "c", "a", "l", "e", "U", "p">> THEN [options EXCEPT !.ScaleUp = TRUE]
        ELSE IF opt \in {<<"j", "p", "e", "g">>, <<"p", "n", "g">>, <<"t", "i", "f", "f">>} THEN [options EXCEPT !.Format = opt]
        ELSE IF opt = <<"s", "c">> THEN [options EXCEPT !.SmartCrop = TRUE]
        ELSE IF HasPrefix(opt, <<"r">>)
             THEN [options EXCEPT !.Rotate = ParseNumber(TrimPrefix(opt, <<"r">>)).val]
        ELSE IF HasPrefix(opt, <<"q">>)
             THEN [options EXCEPT !.Quality = ParseNumber(TrimPrefix(opt, <<"q">>)).val]
        ELSE IF HasPrefix(opt, <<"s">>)
             THEN [options EXCEPT !.Signature = TrimPrefix(opt, <<"s">>)]
        ELSE IF HasPrefix(opt, <<"c", "x">>)
             THEN [options EXCEPT !.CropX = ParseNumber(TrimPrefix(opt, <<"c", "x">>)).val]
        ELSE IF HasPrefix(opt, <<"c", "y">>)
             THEN [options EXCEPT !.CropY = ParseNumber(TrimPrefix(opt, <<"c", "y">>)).val]
        ELSE IF HasPrefix(opt, <<"c", "w">>)
             THEN [options EXCEPT !.CropWidth = ParseNumber(TrimPrefix(opt, <<"c", "w">>)).val]
        ELSE IF HasPrefix(opt, <<"c", "h">>)
             THEN [options EXCEPT !.CropHeight = ParseNumber(TrimPrefix(opt, <<"c", "h">>)).val]
        ELSE IF x > 0
             THEN [options EXCEPT
                     !.Width  = IF w # <<>> THEN ParseNumber(w).val ELSE @,
                     !.Height = IF h # <<>> THEN ParseNumber(h).val ELSE @]
        ELSE IF size.ok THEN [options EXCEPT !.Width = size.val, !.Height = size.val]
        ELSE options

RECURSIVE parseOptionsLoop(_, _)
parseOptionsLoop(options, opts) ==
    IF Len(opts) = 0 THEN options
    ELSE parseOptionsLoop(parseOption(options, opts[1]), Tail(opts))

\* ParseOptions
ParseOptions(str) == parseOptionsLoop(emptyOptions, Split(str, ","))

-----------------------------------------------------------------------------
(* Request, NewRequest *)

\* the remote URL may be fetched over any scheme
anyScheme(u) == TRUE

\* the scheme test of NewRequest
schemeAllowed(u) == u.Scheme = <<"h", "t", "t", "p">> \/ u.Scheme = <<"h", "t", "t", "p", "s">>

noRequest == [URL |-> emptyURL, Options |-> emptyOptions]

\* the query string of the resolved URL is left as resolution gave it
newRequestWithResolvedQuery(r, built, config, form, keyOrder) ==
    IF built.panic THEN [panic |-> TRUE, err |-> FALSE, req |-> noRequest]
    ELSE IF built.err \/ ~IsAbs(built.url) \/ ~schemeAllowed(built.url) \/ form.err
         THEN [panic |-> FALSE, err |-> TRUE, req |-> noRequest]
    ELSE [panic |-> FALSE, err |-> FALSE,
          req |-> [URL |-> built.url,
                   Options |-> ParseFormValues(form.values, config.DefaultOptions,
                                               keyOrder)]]

\* NewRequest once the URL is built, the configuration looked up again and the
\* form parsed
newRequestFrom(r, built, config, form, keyOrder) ==
    IF built.panic THEN [panic |-> TRUE, err |-> FALSE, req |-> noRequest]
    ELSE IF built.err \/ ~IsAbs(built.url) \/ ~schemeAllowed(built.url) \/ form.err
         THEN [panic |-> FALSE, err |-> TRUE, req |-> noRequest]
    ELSE [panic |-> FALSE, err |-> FALSE,
          req |-> [URL |-> [built.url EXCEPT !.RawQuery = r.RawQuery],
                   Options |-> ParseFormValues(form.values, config.DefaultOptions,
                                               keyOrder)]]

\* NewRequest: [panic, err, req].  order1 and order2 are the orders in which
\* the two lookups range over the prefix table, keyOrder the order in which
\* ParseFormValues ranges over the form.
NewRequest(r, order1, order2, keyOrder) ==
    newRequestFrom(r, buildFinalAbsoluteURL(order1, r.Path),
                   bestMatchingConfig(order2, r.Path), parseQuery(r.RawQuery), keyOrder)

\* Request.String: the remote URL with the options in the fragment
RequestString(r) == URLString([r.URL EXCEPT !.Fragment = OptionsString(r.Options)])

-----------------------------------------------------------------------------
(* StripOurOptions *)

OurOptions ==
    {<<"m", "o", "d", "e">>, <<"f", "l", "i", "p">>, <<"f", "o", "r", "m", "a", "t">>, <<"r", "o", "t", "a", "t", "e">>, <<"q", "u", "a", "l", "i", "t", "y">>, <<"s", "i", "g", "n", "a", "t", "u", "r", "e">>,
     <<"c", "r", "o", "p">>, <<"w", "i", "d", "t", "h">>, <<"h", "e", "i", "g", "h", "t">>, <<"s", "i", "z", "e">>}

RECURSIVE QueryEscape(_)
\* url.QueryEscape
QueryEscape(s) ==
    IF Len(s) = 0 THEN <<>>
    ELSE IF s[1] = " " THEN <<"+">> \o QueryEscape(Tail(s))
    ELSE IF \E e \in HexTable : e[1] = s[1]
         THEN LET e == CHOOSE e \in HexTable : e[1] = s[1]
              IN  <<"%", e[2], e[3]>> \o QueryEscape(Tail(s))
    ELSE <<s[1]>> \o QueryEscape(Tail(s))

RECURSIVE Less(_, _)
\* a < b for Go strings
Less(a, b) ==
    IF Len(b) = 0 THEN FALSE
    ELSE IF Len(a) = 0 THEN TRUE
    ELSE IF a[1] # b[1] THEN Code(a[1]) < Code(b[1])
    ELSE Less(Tail(a), Tail(b))

RECURSIVE SortStrings(_)
\* sort.Strings of the keys S
SortStrings(S) ==
    IF S = {} THEN <<>>
    ELSE LET least == CHOOSE k \in S : \A j \in S : j = k \/ Less(k, j)
         IN  <<least>> \o SortStrings(S \ {least})

\* only the first value of a key is written, as Values.Get would give it
encodeFirstValue(key, vs) ==
    IF Len(vs) = 0 THEN <<>>
    ELSE <<QueryEscape(key) \o <<"=">> \o QueryEscape(vs[1])>>

RECURSIVE encodePairs(_, _)
\* the "k=v" texts Encode writes for the values vs of key
encodePairs(key, vs) ==
    IF Len(vs) = 0 THEN <<>>
    ELSE <<QueryEscape(key) \o <<"=">> \o QueryEscape(vs[1])>> \o encodePairs(key, Tail(vs))

RECURSIVE encodeKeys(_, _)
encodeKeys(values, keys) ==
    IF Len(keys) = 0 THEN <<>>
    ELSE encodePairs(keys[1], ValuesOf(values, keys[1])) \o encodeKeys(values, Tail(keys))

\* url.Values.Encode: "k=v" pairs joined by "&", sorted by key
Encode(values) == Join(encodeKeys(values, SortStrings(Keys(values))), <<"&">>)

\* StripOurOptions: [err, query]
StripOurOptions(rawQuery) ==
    LET parsed    == parseQuery(rawQuery)
        newValues == SelectSeq(parsed.values, LAMBDA kv : kv[1] \notin OurOptions)
    IN  IF parsed.err THEN [err |-> TRUE, query |-> <<>>]
        ELSE [err |-> FALSE, query |-> Encode(newValues)]

\* path.Ext: the suffix beginning at the final dot in the final element of path
Ext(path) ==
    LET dot == LastIndex(path, ".")
    IN  IF dot > LastIndex(path, "/") THEN SliceFrom(path, dot - 1) ELSE <<>>

\* the URL RoundTrip requests upstream, from the URL the client was given
upstreamURL(u) ==
    [u EXCEPT !.Fragment = <<>>,
              !.RawQuery = StripOurOptions(u.RawQuery).query,
              !.Path = TrimSuffix(u.Path, Ext(u.Path))]

-----------------------------------------------------------------------------
(* ETags *)

HexDigits == <<"0", "1", "2", "3", "4", "5", "6", "7", "8", "9", "a", "b", "c", "d", "e", "f">>

\* md5 in hex, modelled by the digest of the model at 2 * MacSize hex digits
MD5Hex(s) ==
    LET h == Digest(0, s)
    IN  [i \in 1..(2 * MacSize) |-> HexDigits[((h \div (16 ^ (2 * MacSize - i))) % 16) + 1]]

buildVersion == <<"d", "e", "v">>

semanticEtag(remoteEtag, options) ==
    MD5Hex(remoteEtag \o OptionsString(options) \o buildVersion)

\* the ETag header serveImage writes: W/"<responseEtag>"
etagHeader(responseEtag) == <<"W", "/", "\"">> \o responseEtag \o <<"\"">>

RECURSIVE TrimSpace(_)
\* strings.TrimSpace
TrimSpace(s) ==
    IF Len(s) > 0 /\ s[1] \in {" ", "\n", "\r"} THEN TrimSpace(Tail(s))
    ELSE IF Len(s) > 0 /\ s[Len(s)] \in {" ", "\n", "\r"}
         THEN TrimSpace(SubSeq(s, 1, Len(s) - 1))
    ELSE s

\* should304
should304(ifNoneMatch, responseEtag) ==
    LET candidates == Split(ifNoneMatch, ",")
    IN  /\ responseEtag # <<>>
        /\ ifNoneMatch # <<>>
        /\ \E i \in 1..Len(candidates) :
              TrimPrefix(TrimSpace(candidates[i]), <<"W", "/">>) = responseEtag

-----------------------------------------------------------------------------
(* The proxy as main() configures it, and the requests clients send *)

baseURL == Parse(<<"h", "t", "t", "p", "s", ":", "/", "/", "h", "/", "d", "/">>).url

\* SourceConfigurations: a bare prefix, and a prefix with base URL, default
\* options and publication stripping
plainConfig ==
    [Prefix |-> <<"/", "p">>, HasBaseURL |-> FALSE, BaseURL |-> emptyURL,
     DefaultOptions |-> emptyOptions, StripPublication |-> FALSE]

basedConfig ==
    [Prefix |-> <<"/", "b", "/">>, HasBaseURL |-> TRUE, BaseURL |-> baseURL,
     DefaultOptions |-> [emptyOptions EXCEPT !.ScaleUp = TRUE, !.Quality = 5],
     StripPublication |-> FALSE]

publicationConfig ==
    [Prefix |-> <<"/", "s">>, HasBaseURL |-> TRUE, BaseURL |-> baseURL,
     DefaultOptions |-> emptyOptions, StripPublication |-> TRUE]

\* a prefix whose base URL is not an http one
ftpConfig ==
    [Prefix |-> <<"/", "f">>, HasBaseURL |-> TRUE, BaseURL |-> Parse(<<"f", "t", "p", ":", "/", "/", "h", "/", "d", "/">>).url,
     DefaultOptions |-> emptyOptions, StripPublication |-> FALSE]

openAccess == [Whitelist |-> <<>>, Referrers |-> <<>>, SignatureKey |-> <<>>]

Proxies ==
    {[openAccess EXCEPT !.Whitelist = <<hGood>>],
     [openAccess EXCEPT !.SignatureKey = Key1],
     [openAccess EXCEPT !.Referrers = <<hGood>>, !.Whitelist = <<hGood>>]}
    \cup {openAccess}

Configurations ==
    {[access |-> openAccess, ScaleUp |-> s, PrefixesToConfigs |-> t] :
        s \in BOOLEAN, t \in {{}, {plainConfig, basedConfig, publicationConfig}}}
    \cup {[access |-> openAccess, ScaleUp |-> FALSE, PrefixesToConfigs |-> {ftpConfig}]}
    \cup {[access |-> a, ScaleUp |-> FALSE, PrefixesToConfigs |-> {}] : a \in Proxies}

RequestPaths ==
    {<<"/">>, <<"/", "h", "e", "a", "l", "t", "h", "-", "c", "h", "e", "c", "k">>, <<"/", "f", "a", "v", "i", "c", "o", "n", ".", "i", "c", "o">>, <<"/", "a", "p", "p", "l", "e", "-", "t", "o", "u", "c", "h", "-", "i", "c", "o", "n", ".", "p", "n", "g">>,
     <<"/", "a", "p", "p", "l", "e", "-", "t", "o", "u", "c", "h", "-", "i", "c", "o", "n", "-", "p", "r", "e", "c", "o", "m", "p", "o", "s", "e", "d", ".", "p", "n", "g">>,
     <<"/", "h", "t", "t", "p", ":", "/", "/", "g", "/", "i">>, <<"/", "h", "t", "t", "p", ":", "/", "g", "/", "i", ".", "j", "p", "g">>, <<"/", "h", "t", "t", "p", "s", ":", "/", "/", "e", "/", "i">>, <<"/", "f", "t", "p", ":", "/", "/", "g", "/", "i">>,
     <<"/", "h", "t", "t", "p", ":", "g">>, <<"/", "g", "/", "i">>, <<"/", ":", "x">>,
     <<"/", "p", "/", "h", "t", "t", "p", ":", "/", "/", "g", "/", "i">>, <<"/", "p">>, <<"/", "p", "/">>,
     <<"/", "b", "/", "i", ".", "j", "p", "g">>, <<"/", "b", "/", "f", "t", "p", ":", "/", "/", "g", "/", "i">>, <<"/", "b", "/", ":", "x">>, <<"/", "f", "/", "i">>,
     <<"/", "s", "/", "p", "u", "b", "/", "i">>, <<"/", "s", "/", "p", "u", "b">>}

\* the query strings sent with path: transform parameters, a malformed
\* escape, signature values, and the signature the README prescribes for the
\* remote URL written in the path
RequestQueries(path) ==
    {<<>>, <<"w", "i", "d", "t", "h", "=", "2", "&", "s", "i", "z", "e", "=", "3">>, <<"i", "d", "=", "7", "&", "f", "o", "r", "m", "a", "t", "=", "p", "n", "g">>, <<"w", "i", "d", "t", "h", "=", "%", "z", "z">>,
     <<"s", "i", "g", "n", "a", "t", "u", "r", "e", "=", "c", "a", "l", "e", "U", "p">>, <<"s", "i", "g", "n", "a", "t", "u", "r", "e", "=", "A", ",", "s", "c", "a", "l", "e", "U", "p", "&", "w", "i", "d", "t", "h", "=", "4">>,
     <<"s", "i", "g", "n", "a", "t", "u", "r", "e", "=">> \o Sign(Key1, SliceFrom(path, 1)),
     <<"s", "i", "z", "e", "=", "3">>, <<"w", "i", "d", "t", "h", "=", "2", "&", "d", "p", "r", "=", "2">>}

Requests ==
    UNION {{[Path |-> p, RawQuery |-> q, Referer |-> f, IfNoneMatch |-> <<>>] :
               q \in RequestQueries(p), f \in {<<>>, <<"h", "t", "t", "p", ":", "/", "/", "g", "/", "f">>}} :
           p \in RequestPaths}

\* what the upstream server answers to a HEAD or GET
\* number of bytes of the image named img
imageLen(img) == CASE img = "original" -> 2 [] img = "transformed" -> 1 [] OTHER -> 0

upstreamHeaders ==
    {[Etag |-> e, ContentType |-> c, ContentLength |-> n, CacheTag |-> <<>>] :
        e \in {<<>>, <<"\"", "t", "\"">>}, n \in {<<>>, <<imageLen("original")>>},
        c \in {<<"i", "m", "a", "g", "e", "/", "j", "p", "e", "g">>, <<"i", "m", "a", "g", "e", "/", "w", "e", "b", "p">>}}

noHeader == [Etag |-> <<>>, ContentType |-> <<>>, ContentLength |-> <<>>, CacheTag |-> <<>>]

HeadOutcomes ==
    {[err |-> TRUE, status |-> 0, header |-> noHeader]}
    \cup {[err |-> FALSE, status |-> s, header |-> h] :
             s \in {200, 404}, h \in upstreamHeaders}

\* what happens at the remote function
LambdaOutcomes ==
    {"sessionError", "invokeError", "getError", "getStatus", "readError",
     "transformError", "tooLarge", "ok"}

\* number of times the client repeats a request with If-None-Match
MaxReplays == 1

-----------------------------------------------------------------------------
(* The remote function and the transforming transport *)

\* lambdaExecutor.DoTransformWithURL under the given outcome of its GET, read
\* and transform: (status, header, img, err), and whether transform.Transform
\* ran and produced an image.  Image bytes are named by what they are.
DoTransformWithURL(outcome, header, options) ==
    LET result(status, h, img, err, engine, produced) ==
            [status |-> status, header |-> h, img |-> img, err |-> err,
             engine |-> engine, produced |-> produced]
    IN  CASE outcome = "getError"  -> result(500, noHeader, "", TRUE, FALSE, FALSE)
          [] outcome = "getStatus" -> result(404, header, "", TRUE, FALSE, FALSE)
          [] outcome = "readError" -> result(500, header, "", TRUE, FALSE, FALSE)
          [] outcome = "transformError" -> result(500, header, "original", TRUE, TRUE, FALSE)
          [] outcome = "tooLarge"  -> result(500, noHeader, "", TRUE, TRUE, TRUE)
          [] OTHER -> result(200, header,
                             IF Transform(options) THEN "transformed" ELSE "original",
                             FALSE, TRUE, TRUE)

\* HandleRequest: the LambdaTransformResponse built from the executor's result
HandleRequest(result) ==
    [Status |-> result.status, UpstreamHeader |-> result.header,
     Image |-> IF result.err THEN "" ELSE result.img]

\* upstreamHeader.WriteSubset: the headers without Content-Length and, when
\* the format may have changed, without Content-Type
WriteSubset(upstreamHeader, opt) ==
    IF \/ opt.Format # <<>>
       \/ upstreamHeader.ContentType = <<"i", "m", "a", "g", "e", "/", "w", "e", "b", "p">>
       \/ upstreamHeader.ContentType = <<"i", "m", "a", "g", "e", "/", "t", "i", "f", "f">>
    THEN [upstreamHeader EXCEPT !.ContentType = <<>>, !.ContentLength = <<>>]
    ELSE [upstreamHeader EXCEPT !.ContentLength = <<>>]

\* the replayed response with the upstream Content-Length left in
synthesizeKeepingLength(status, upstreamHeader, img, opt) ==
    [status |-> IF status <= 0 THEN 500 ELSE status,
     header |-> [WriteSubset(upstreamHeader, opt) EXCEPT
                    !.ContentLength = upstreamHeader.ContentLength \o <<imageLen(img)>>],
     img |-> img,
     upstreamHeader |-> upstreamHeader]

\* the response RoundTrip replays: status, the subset of the upstream
\* headers, the length of img, and img; upstreamHeader is kept beside it
synthesize(status, upstreamHeader, img, opt) ==
    [status |-> IF status <= 0 THEN 500 ELSE status,
     header |-> [WriteSubset(upstreamHeader, opt) EXCEPT
                    !.ContentLength = <<imageLen(img)>>],
     img |-> img,
     upstreamHeader |-> upstreamHeader]

blankRequest == [Path |-> <<>>, RawQuery |-> <<>>, Referer |-> <<>>, IfNoneMatch |-> <<>>]

blankImageRequest == [URL |-> emptyURL, Options |-> emptyOptions, Original |-> blankRequest]

blankOut ==
    [url |-> <<>>, headURL |-> <<>>, opt |-> emptyOptions, heads |-> 0,
     invocations |-> 0, gets |-> 0, engine |-> FALSE, engineOptions |-> emptyOptions,
     produced |-> FALSE, transformFailed |-> FALSE, upstream |-> 0,
     fetchErr |-> FALSE, status |-> 0, header |-> noHeader, img |-> "",
     probe |-> [done |-> FALSE, err |-> FALSE, status |-> 0, header |-> noHeader],
     upstreamHeader |-> noHeader]

blankResponse ==
    [status |-> 0, body |-> "", ETag |-> <<>>, ContentType |-> <<>>, CacheTag |-> <<>>]

noneSeen ==
    [any |-> FALSE, req |-> blankRequest, ETag |-> <<>>, remoteEtag |-> <<>>,
     Options |-> emptyOptions, replays |-> 0]

\* http.Error(w, msg, code), and the bodies of the fixed answers
errorResponse(code) == [blankResponse EXCEPT !.status = code, !.body = "error"]

-----------------------------------------------------------------------------
(* The server *)

Init ==
    /\ cfg \in Configurations
    /\ pc = "idle"
    /\ req = blankRequest
    /\ ireq = blankImageRequest
    /\ out = blankOut
    /\ resp = blankResponse
    /\ seen = noneSeen
    /\ idleFn /\ idlePool

\* a client sends a request; a Referer header is drawn only for a proxy that
\* has a referrer list, the only place where the header is read
Receive ==
    /\ pc = "idle" /\ ~seen.any
    /\ \E r \in Requests :
          /\ r.Referer # <<>> => cfg.access.Referrers # <<>>
          /\ req' = r
    /\ pc' = "received"
    /\ ireq' = blankImageRequest /\ out' = blankOut /\ resp' = blankResponse
    /\ UNCHANGED <<cfg, seen, fin, fout, poolVars>>

\* the entity tag inside W/"..."
BareTag(header) == SubSeq(header, 4, Len(header) - 1)

\* the client repeats the request whose response carried an ETag, with
\* If-None-Match set to that header value or to the tag inside it
ReceiveAgain ==
    /\ pc = "idle" /\ seen.any /\ seen.replays < MaxReplays
    /\ \E inm \in {seen.ETag, BareTag(seen.ETag)} :
          req' = [seen.req EXCEPT !.IfNoneMatch = inm]
    /\ pc' = "received"
    /\ ireq' = blankImageRequest /\ out' = blankOut /\ resp' = blankResponse
    /\ UNCHANGED <<cfg, seen, fin, fout, poolVars>>

HealthPaths == {<<"/">>, <<"/", "h", "e", "a", "l", "t", "h", "-", "c", "h", "e", "c", "k">>}

IgnoredPaths ==
    {<<"/", "f", "a", "v", "i", "c", "o", "n", ".", "i", "c", "o">>, <<"/", "a", "p", "p", "l", "e", "-", "t", "o", "u", "c", "h", "-", "i", "c", "o", "n", ".", "p", "n", "g">>, <<"/", "a", "p", "p", "l", "e", "-", "t", "o", "u", "c", "h", "-", "i", "c", "o", "n", "-", "p", "r", "e", "c", "o", "m", "p", "o", "s", "e", "d", ".", "p", "n", "g">>}

\* serveImage from the access check on, for the Request r
admit(r) ==
    IF ~allowed(cfg.access, r)
    THEN /\ resp' = errorResponse(403)
         /\ ireq' = r
         /\ pc' = "done"
         /\ UNCHANGED out
    ELSE /\ ireq' = r
         /\ out' = [out EXCEPT !.url = RequestString(r)]
         /\ pc' = "fetch"
         /\ UNCHANGED resp

\* serveImage after NewRequest returned n
serveImage(n) ==
    IF n.panic
    THEN pc' = "panicked" /\ UNCHANGED <<ireq, out, resp>>
    ELSE IF n.err
    THEN /\ resp' = errorResponse(400)
         /\ pc' = "done"
         /\ UNCHANGED <<ireq, out>>
    ELSE admit([URL |-> n.req.URL,
                Options |-> [n.req.Options EXCEPT !.ScaleUp = cfg.ScaleUp],
                Original |-> req])

\* Proxy.ServeHTTP up to the call of p.Client.Get: the fixed answers, then
\* serveImage's NewRequest, ScaleUp assignment and access check
ServeHTTP ==
    /\ pc = "received"
    /\ \/ /\ req.Path \in HealthPaths
          /\ resp' = [blankResponse EXCEPT !.status = 200, !.body = "OK"]
          /\ pc' = "done"
          /\ UNCHANGED <<ireq, out>>
       \/ /\ req.Path \notin HealthPaths /\ req.Path \in IgnoredPaths
          /\ resp' = [blankResponse EXCEPT !.status = 404, !.body = "Not found"]
          /\ pc' = "done"
          /\ UNCHANGED <<ireq, out>>
       \/ /\ req.Path \notin HealthPaths \cup IgnoredPaths
          /\ \E order1 \in Orders(cfg.PrefixesToConfigs),
                order2 \in Orders(cfg.PrefixesToConfigs),
                keyOrder \in Orders(Keys(parseQuery(req.RawQuery).values)) :
                serveImage(NewRequest(req, order1, order2, keyOrder))
    /\ UNCHANGED <<cfg, req, seen, fin, fout, poolVars>>

\* the response RoundTrip replays, recorded in the transport's view o
replay(o, s) ==
    [o EXCEPT !.status = s.status, !.header = s.header, !.img = s.img,
              !.upstreamHeader = s.upstreamHeader]

\* RoundTrip with the status test of the probe left out
probeWithoutStatusTest(probed, head) ==
    IF head.err
    THEN /\ out' = replay(probed, synthesize(0, noHeader, "", probed.opt))
         /\ pc' = "respond"
    ELSE /\ out' = [probed EXCEPT !.header = head.header]
         /\ pc' = "lambda"

\* RoundTrip from the HEAD probe on: probed is the transport's view with the
\* upstream URL and the options of the fragment
probe(probed, head) ==
    IF head.err
    THEN /\ out' = replay(probed, synthesize(0, noHeader, "", probed.opt))
         /\ pc' = "respond"
    ELSE IF head.status >= 400
    THEN /\ out' = replay([probed EXCEPT !.upstream = head.status],
                          synthesize(head.status, head.header, "", probed.opt))
         /\ pc' = "respond"
    ELSE /\ out' = [probed EXCEPT !.header = head.header]
         /\ pc' = "lambda"

\* p.Client.Get(req.String()) once the URL string is parsed
get(parsed) ==
    IF parsed.err
    THEN /\ resp' = errorResponse(500)
         /\ out' = [out EXCEPT !.fetchErr = TRUE]
         /\ pc' = "done"
    ELSE /\ resp' = resp
         /\ \E head \in HeadOutcomes :
               probe([out EXCEPT !.headURL = URLString(upstreamURL(parsed.url)),
                                 !.opt = ParseOptions(parsed.url.Fragment),
                                 !.heads = @ + 1,
                                 !.probe = [done |-> TRUE, err |-> head.err,
                                            status |-> head.status,
                                            header |-> head.header]],
                     head)

\* p.Client.Get(req.String()) up to the HEAD probe of RoundTrip
RoundTrip ==
    /\ pc = "fetch"
    /\ get(Parse(out.url))
    /\ UNCHANGED <<cfg, req, ireq, seen, fin, fout, poolVars>>

\* the transport's view after the remote function answered
invoked(outcome, result, answer) ==
    replay([out EXCEPT !.invocations = @ + 1, !.gets = @ + 1,
                       !.engine = result.engine,
                       !.engineOptions = IF result.engine THEN out.opt ELSE @,
                       !.produced = result.produced,
                       !.transformFailed = (outcome = "transformError"),
                       !.upstream = IF outcome = "getStatus" THEN result.status
                                    ELSE IF outcome = "getError" THEN 0
                                    ELSE 200],
           synthesize(answer.Status, answer.UpstreamHeader, answer.Image, out.opt))

\* TransformWithURL: the remote function runs HandleRequest on the executor's
\* result
invoke(outcome, result) == invoked(outcome, result, HandleRequest(result))

\* RoundTrip from NewLambdaClient to the replayed response
Lambda ==
    /\ pc = "lambda"
    /\ \E outcome \in LambdaOutcomes :
          /\ outcome = "transformError" => Transform(out.opt)
          /\ IF outcome = "sessionError"
             THEN /\ resp' = errorResponse(500)
                  /\ out' = [out EXCEPT !.fetchErr = TRUE]
                  /\ pc' = "done"
             ELSE IF outcome = "invokeError"
             THEN /\ out' = replay(out, synthesize(0, noHeader, "", out.opt))
                  /\ pc' = "respond"
                  /\ resp' = resp
             ELSE /\ out' = invoke(outcome,
                                   DoTransformWithURL(outcome, out.header, out.opt))
                  /\ pc' = "respond"
                  /\ resp' = resp
    /\ UNCHANGED <<cfg, req, ireq, seen, fin, fout, poolVars>>

\* the ETag header set on the response writer
withETag(remoteEtag, responseEtag) ==
    IF remoteEtag # <<>>
    THEN [blankResponse EXCEPT !.ETag = etagHeader(responseEtag)]
    ELSE blankResponse

\* the end of serveImage: the ETag, then 304 or the replayed status and body
writeResponse(remoteEtag, responseEtag) ==
    IF remoteEtag # <<>> /\ should304(req.IfNoneMatch, responseEtag)
    THEN [withETag(remoteEtag, responseEtag) EXCEPT !.status = 304]
    ELSE [withETag(remoteEtag, responseEtag) EXCEPT
            !.status = out.status, !.body = out.img,
            !.ContentType = out.header.ContentType]

\* the value of the Cache-Tag header
cacheTags == <<"i", "m", "a", "g", "e", "p", "r", "o", "x", "y", ",", "i", "m", "a", "g", "e", "p", "r", "o", "x", "y", "-", "1">>

\* serveImage after p.Client.Get returned a response: Cache-Tag is set on the
\* header of the fetched response, the rest is written to the client
Respond ==
    /\ pc = "respond"
    /\ out' = [out EXCEPT !.header.CacheTag = cacheTags]
    /\ resp' = writeResponse(out.header.Etag, semanticEtag(out.header.Etag, ireq.Options))
    /\ pc' = "done"
    /\ UNCHANGED <<cfg, req, ireq, seen, fin, fout, poolVars>>

\* the client has its answer (or a closed connection, after a panic) and
\* remembers the first response that carried an ETag
Finish ==
    /\ pc \in {"done", "panicked"}
    /\ seen' = IF seen.any THEN [seen EXCEPT !.replays = @ + 1]
               ELSE IF resp.ETag # <<>>
                    THEN [any |-> TRUE, req |-> req, ETag |-> resp.ETag,
                          remoteEtag |-> out.header.Etag, Options |-> ireq.Options,
                          replays |-> 0]
               ELSE seen
    /\ pc' = "idle"
    /\ req' = blankRequest /\ ireq' = blankImageRequest
    /\ out' = blankOut /\ resp' = blankResponse
    /\ UNCHANGED <<cfg, fin, fout, poolVars>>

Next == Receive \/ ReceiveAgain \/ ServeHTTP \/ RoundTrip \/ Lambda \/ Respond \/ Finish

Spec == Init /\ [][Next]_vars

-----------------------------------------------------------------------------
(* The bounded concurrency pool of the transforming transport: a counting   *)
(* semaphore of maxConcurrency slots, taken before the transform engine     *)
(* runs and given back in a deferred release.                               *)

\* pool capacity, the -maxConcurrency flag
maxConcurrency == 2

\* concurrent requests, and transforms each of them asks for
NumTasks == 3

MaxTransforms == 2

Tasks == 1..NumTasks

\* the positions at which a task holds a slot: in the engine, and back from it
\* with or without an image, before the deferred release has run
Holding == {"running", "succeeded", "failed"}

holders == {t \in Tasks : tasks[t].pc \in Holding}

\* a slot may be taken whatever the number of slots in use
unbounded(s) == TRUE

\* a slot is free
slotFree(s) == s < maxConcurrency

InitPool ==
    /\ sem = 0
    /\ tasks = [t \in Tasks |-> [pc |-> "idle", transforms |-> 0]]
    /\ idleFn /\ idleServer

\* a request reaches the point where it needs a transform
NeedTransform(t) ==
    /\ tasks[t].pc = "idle" /\ tasks[t].transforms < MaxTransforms
    /\ tasks' = [tasks EXCEPT ![t].pc = "waiting"]
    /\ UNCHANGED sem

\* acquisition: blocks while no slot is free
Acquire(t) ==
    /\ tasks[t].pc = "waiting"
    /\ slotFree(sem)
    /\ sem' = sem + 1
    /\ tasks' = [tasks EXCEPT ![t].pc = "running"]

\* the transform engine returns an image
TransformDone(t) ==
    /\ tasks[t].pc = "running"
    /\ tasks' = [tasks EXCEPT ![t].pc = "succeeded"]
    /\ UNCHANGED sem

\* the transform engine returns an error
TransformFailed(t) ==
    /\ tasks[t].pc = "running"
    /\ tasks' = [tasks EXCEPT ![t].pc = "failed"]
    /\ UNCHANGED sem

\* the deferred release, on every exit path
Release(t) ==
    /\ tasks[t].pc \in {"succeeded", "failed"}
    /\ sem' = sem - 1
    /\ tasks' = [tasks EXCEPT ![t].pc = "idle", ![t].transforms = @ + 1]

NextPool ==
    /\ \E t \in Tasks :
          \/ NeedTransform(t)
          \/ Acquire(t)
          \/ TransformDone(t)
          \/ TransformFailed(t)
          \/ Release(t)
    /\ UNCHANGED <<fin, fout, serverVars>>

SpecPool == InitPool /\ [][NextPool]_vars

-----------------------------------------------------------------------------
(* StripOurOptions on drawn query strings *)

\* number of key/value pairs in a drawn query string
MaxPairs == 3

\* the pairs the drawn query strings are made of: remote parameters, a key
\* without value, escaped values, a malformed escape, and transform parameters
QueryPairs ==
    {<<"b", "=", "2">>, <<"a", "=", "1">>, <<"a", "=", "3">>, <<"k">>, <<"c", "=", "%", "2", "6">>, <<"e", "=", "x", "+", "y">>, <<"x", "=", "%", "z", "z">>,
     <<"w", "i", "d", "t", "h", "=", "5">>, <<"m", "o", "d", "e", "=", "f", "i", "t">>, <<"d", "p", "r", "=", "2">>}

\* the query strings of at most n pairs, joined by "&"
RECURSIVE QueriesUpTo(_)
QueriesUpTo(n) ==
    IF n = 0 THEN {<<>>}
    ELSE LET shorter == QueriesUpTo(n - 1)
         IN  shorter \cup QueryPairs
             \cup {q \o <<"&">> \o pr : q \in shorter \ {<<>>}, pr \in QueryPairs}

StripInputs ==
    {[op |-> "StripOurOptions", query |-> q] :
        q \in QueriesUpTo(MaxPairs) \cup {<<"b", "=", "2", ";", "a", "=", "1">>, <<"&", "&", "b", "=", "2", "&">>, <<"=", "v", "&", "a", "=", "1">>}}

ApplyStripOurOptions ==
    /\ fin.op = "StripOurOptions" /\ ~fout.done
    /\ fout' = [done |-> TRUE, val |-> StripOurOptions(fin.query)]
    /\ UNCHANGED <<fin, serverVars, poolVars>>

-----------------------------------------------------------------------------
(* Options.String and ParseOptions on drawn Options *)

\* signatures of base64url characters
SignatureTexts == {<<>>, <<"c">>, <<"c", "a", "l", "e", "U", "p">>, <<"A", "-", "_", "9">>, <<"x">>, <<"f", "i", "t">>}

OptionValues ==
    {[Width |-> w, Height |-> h, Fit |-> fit, Rotate |-> r,
      FlipVertical |-> fl[1], FlipHorizontal |-> fl[2], Quality |-> q,
      Signature |-> sig, ScaleUp |-> up, Format |-> fmt,
      CropX |-> cr[1], CropY |-> cr[2], CropWidth |-> cr[3], CropHeight |-> cr[4],
      SmartCrop |-> sc] :
        w \in {0, 2}, h \in {0, 12}, fit \in BOOLEAN, r \in {0, -90},
        fl \in {<<FALSE, FALSE>>, <<TRUE, FALSE>>, <<TRUE, TRUE>>},
        q \in {0, 5}, sig \in SignatureTexts, up \in BOOLEAN,
        fmt \in {<<>>, <<"j", "p", "e", "g">>, <<"p", "n", "g">>, <<"t", "i", "f", "f">>},
        cr \in {<<0, 0, 0, 0>>, <<1, 2, 3, 4>>, <<0, -1, 0, 7>>},
        sc \in BOOLEAN}

OptionsInputs == {[op |-> "ParseOptions", o |-> o] : o \in OptionValues}

\* the fragment is written by Request.String and read by RoundTrip
ApplyParseOptions ==
    /\ fin.op = "ParseOptions" /\ ~fout.done
    /\ fout' = [done |-> TRUE,
                val |-> [str |-> OptionsString(fin.o),
                         parsed |-> ParseOptions(OptionsString(fin.o))]]
    /\ UNCHANGED <<fin, serverVars, poolVars>>

-----------------------------------------------------------------------------
(* ParseFormValues on drawn forms *)

\* number of key/value pairs in a drawn form
MaxFormPairs == 2

FormPairs ==
    {<<"w", "i", "d", "t", "h", "=", "2">>, <<"h", "e", "i", "g", "h", "t", "=", "3">>, <<"s", "i", "z", "e", "=", "4">>, <<"h", "e", "i", "g", "h", "t", "=", "-", "1">>, <<"m", "o", "d", "e", "=", "f", "i", "t">>, <<"m", "o", "d", "e", "=", "c", "r", "o", "p">>,
     <<"d", "p", "r", "=", "2">>, <<"d", "p", "r", "=", "0">>, <<"d", "p", "r", "=", "x">>, <<"c", "r", "o", "p", "=", "1", ",", "2", ",", "3", ",", "4">>}

\* the query strings of at most n of these pairs, joined by "&"
RECURSIVE FormsUpTo(_)
FormsUpTo(n) ==
    IF n = 0 THEN {<<>>}
    ELSE LET shorter == FormsUpTo(n - 1)
         IN  shorter \cup FormPairs
             \cup {q \o <<"&">> \o pr : q \in shorter \ {<<>>}, pr \in FormPairs}

\* default options of a SourceConfiguration
DefaultOptionValues ==
    {emptyOptions, [emptyOptions EXCEPT !.Fit = TRUE],
     [emptyOptions EXCEPT !.Width = 6, !.Height = 6, !.CropWidth = 1]}

\* forms of more pairs: a ratio with a width and a crop rectangle, a size
\* with a mode, a non-positive dimension, two ratios
LongerForms ==
    {<<"w", "i", "d", "t", "h", "=", "2", "&", "d", "p", "r", "=", "2", "&", "c", "r", "o", "p", "=", "1", ",", "2", ",", "3", ",", "4">>,
     <<"s", "i", "z", "e", "=", "4", "&", "m", "o", "d", "e", "=", "c", "r", "o", "p", "&", "d", "p", "r", "=", "2">>,
     <<"w", "i", "d", "t", "h", "=", "2", "&", "h", "e", "i", "g", "h", "t", "=", "3", "&", "m", "o", "d", "e", "=", "c", "r", "o", "p">>,
     <<"w", "i", "d", "t", "h", "=", "2", "&", "h", "e", "i", "g", "h", "t", "=", "-", "1", "&", "d", "p", "r", "=", "x">>,
     <<"d", "p", "r", "=", "2", "&", "w", "i", "d", "t", "h", "=", "2", "&", "h", "e", "i", "g", "h", "t", "=", "3", "&", "d", "p", "r", "=", "0">>}

FormInputs ==
    {[op |-> "ParseFormValues", query |-> q, defaults |-> d] :
        q \in FormsUpTo(MaxFormPairs) \cup LongerForms, d \in DefaultOptionValues}

\* ParseFormValues(r.Form, defaultOptions); the range loop visits the keys of
\* the form in any order
ApplyParseFormValues ==
    /\ fin.op = "ParseFormValues" /\ ~fout.done
    /\ \E keyOrder \in Orders(Keys(parseQuery(fin.query).values)) :
          fout' = [done |-> TRUE,
                   val |-> [o |-> ParseFormValues(parseQuery(fin.query).values,
                                                  fin.defaults, keyOrder),
                            keyOrder |-> keyOrder]]
    /\ UNCHANGED <<fin, serverVars, poolVars>>

-----------------------------------------------------------------------------
(* bestMatchingConfig on drawn prefix tables *)

\* a SourceConfiguration without base URL under the given prefix
configAt(prefix) == [plainConfig EXCEPT !.Prefix = prefix]

\* the keys of the drawn prefix tables; "/p" and "/p/" are equal once the
\* trailing slash is trimmed
TablePrefixes == {<<"/", "p">>, <<"/", "p", "/">>, <<"/", "p", "q">>, <<"/", "p", "/", "q">>, <<"/">>}

MatchPaths == {<<"/", "p", "/", "i">>, <<"/", "p", "q", "/", "i">>, <<"/", "p", "/", "q", "/", "i">>, <<"/", "p">>, <<"/", "x", "/", "i">>, <<"/">>}

MatchInputs ==
    {[op |-> "bestMatchingConfig", table |-> {configAt(x) : x \in keys}, path |-> p] :
        keys \in SUBSET TablePrefixes, p \in MatchPaths}

\* bestMatchingConfig(prefixesToConfigs, originalURL); the range loop visits
\* the table in any order
ApplyBestMatchingConfig ==
    /\ fin.op = "bestMatchingConfig" /\ ~fout.done
    /\ \E order \in Orders(fin.table) :
          fout' = [done |-> TRUE,
                   val |-> [config |-> bestMatchingConfig(order, fin.path),
                            order |-> order]]
    /\ UNCHANGED <<fin, serverVars, poolVars>>

-----------------------------------------------------------------------------
(* NewRequest on drawn prefix tables and requests *)

\* the base URL and prefix of Test_NewRequest_PrefixAndBaseURL
exampleBase == Parse(<<"h", "t", "t", "p", "s", ":", "/", "/", "i", "m", "a", "g", "e", "h", "o", "s", "t", ".", "i", "n", "v", "a", "l", "i", "d", "/", "f", "o", "o", "b", "a", "r", "/">>).url

prefixConfig ==
    [Prefix |-> <<"/", "p", "r", "e", "f", "i", "x">>, HasBaseURL |-> TRUE, BaseURL |-> exampleBase,
     DefaultOptions |-> emptyOptions, StripPublication |-> FALSE]

\* the same with default options
prefixDefaults ==
    [prefixConfig EXCEPT !.DefaultOptions = [emptyOptions EXCEPT !.Quality = 5, !.Format = <<"p", "n", "g">>]]

\* a second key that trims to the same prefix, without base URL
prefixSlash ==
    [Prefix |-> <<"/", "p", "r", "e", "f", "i", "x", "/">>, HasBaseURL |-> FALSE, BaseURL |-> emptyURL,
     DefaultOptions |-> [emptyOptions EXCEPT !.Rotate = 90], StripPublication |-> FALSE]

pubConfig ==
    [Prefix |-> <<"/", "p", "u", "b">>, HasBaseURL |-> TRUE, BaseURL |-> exampleBase,
     DefaultOptions |-> emptyOptions, StripPublication |-> TRUE]

NewRequestTables ==
    {{prefixConfig}, {prefixDefaults}, {prefixConfig, prefixSlash},
     {prefixDefaults, pubConfig, configAt(<<"/", "p">>)}}

NewRequestPaths ==
    {<<"/", "p", "r", "e", "f", "i", "x", "/", "b", "a", "z", ".", "j", "p", "g">>, <<"/", "p", "r", "e", "f", "i", "x", "/", "a", "/", "b", ".", "p", "n", "g">>, <<"/", "p", "r", "e", "f", "i", "x", "/", "h", "t", "t", "p", ":", "/", "/", "g", "/", "i">>, <<"/", "p", "r", "e", "f", "i", "x">>,
     <<"/", "p", "r", "e", "f", "i", "x", "/">>, <<"/", "p", "r", "e", "f", "i", "x", "/", ":", "x">>, <<"/", "p", "u", "b", "/", "x", "/", "b", "a", "z", ".", "j", "p", "g">>, <<"/", "p", "u", "b", "/", "x", "/">>, <<"/", "p", "u", "b", "/", "x">>, <<"/", "p", "u", "b">>,
     <<"/", "h", "t", "t", "p", ":", "/", "/", "g", "/", "i">>, <<"/", "o", "t", "h", "e", "r", "/", "i">>}

NewRequestQueries == {<<>>, <<"s", "i", "z", "e", "=", "1", "2", "3">>, <<"w", "i", "d", "t", "h", "=", "2", "&", "x", "=", "1">>, <<"w", "i", "d", "t", "h", "=", "%", "z", "z">>}

NewRequestInputs ==
    {[op |-> "NewRequest", table |-> t, path |-> p, query |-> q] :
        t \in NewRequestTables, p \in NewRequestPaths, q \in NewRequestQueries}

\* NewRequest(r, prefixesToConfigs); each range loop visits its map in any order
ApplyNewRequest ==
    /\ fin.op = "NewRequest" /\ ~fout.done
    /\ \E order1 \in Orders(fin.table), order2 \in Orders(fin.table),
          keyOrder \in Orders(Keys(parseQuery(fin.query).values)) :
          fout' = [done |-> TRUE,
                   val |-> NewRequest([Path |-> fin.path, RawQuery |-> fin.query],
                                      order1, order2, keyOrder)]
    /\ UNCHANGED <<fin, serverVars, poolVars>>

-----------------------------------------------------------------------------
(* validHost on the hosts of TestValidHost *)

TestHostLists ==
    {<<<<"a", ".", "t", "e", "s", "t">>, <<"*", ".", "b", ".", "t", "e", "s", "t">>, <<"*", "c", ".", "t", "e", "s", "t">>>>, <<<<"*", ".", "b", ".", "t", "e", "s", "t">>>>, <<<<"a", ".", "t", "e", "s", "t">>>>, <<>>,
     <<<<"b", ".", "t", "e", "s", "t">>>>, <<<<"*", ".", "b", ".", "t", "e", "s", "t">>, <<"b", ".", "t", "e", "s", "t">>>>}

TestHostURLs ==
    {<<"h", "t", "t", "p", ":", "/", "/", "a", ".", "t", "e", "s", "t", "/", "i", "m", "a", "g", "e">>, <<"h", "t", "t", "p", ":", "/", "/", "x", ".", "a", ".", "t", "e", "s", "t", "/", "i", "m", "a", "g", "e">>, <<"h", "t", "t", "p", ":", "/", "/", "b", ".", "t", "e", "s", "t", "/", "i", "m", "a", "g", "e">>,
     <<"h", "t", "t", "p", ":", "/", "/", "x", ".", "b", ".", "t", "e", "s", "t", "/", "i", "m", "a", "g", "e">>, <<"h", "t", "t", "p", ":", "/", "/", "x", ".", "y", ".", "b", ".", "t", "e", "s", "t", "/", "i", "m", "a", "g", "e">>, <<"h", "t", "t", "p", ":", "/", "/", "c", ".", "t", "e", "s", "t", "/", "i", "m", "a", "g", "e">>,
     <<"h", "t", "t", "p", ":", "/", "/", "x", "c", ".", "t", "e", "s", "t", "/", "i", "m", "a", "g", "e">>, <<"h", "t", "t", "p", ":", "/", "/", "x", "b", ".", "t", "e", "s", "t", "/", "i", "m", "a", "g", "e">>, <<"/", "i", "m", "a", "g", "e">>}

ValidHostInputs ==
    {[op |-> "validHost", hosts |-> h, url |-> u] : h \in TestHostLists, u \in TestHostURLs}

ApplyValidHost ==
    /\ fin.op = "validHost" /\ ~fout.done
    /\ fout' = [done |-> TRUE, val |-> validHost(fin.hosts, Parse(fin.url).url)]
    /\ UNCHANGED <<fin, serverVars, poolVars>>

-----------------------------------------------------------------------------
(* encoding/base64, StdEncoding, and the stream decoder of base64.NewDecoder *)

\* Texts are sequences of character codes here, as the bytes they are in the
\* program: ascii85 uses characters that have no string form in this module.
\* The value of a symbol of the standard alphabet, A-Z a-z 0-9 + /.
IsB64Std(c) ==
    \/ c \in 65..90 \/ c \in 97..122 \/ c \in 48..57 \/ c = 43 \/ c = 47

B64StdVal(c) ==
    IF c \in 65..90 THEN c - 65
    ELSE IF c \in 97..122 THEN c - 71
    ELSE IF c \in 48..57 THEN c + 4
    ELSE IF c = 43 THEN 62 ELSE 63

B64StdChar(v) ==
    IF v < 26 THEN v + 65
    ELSE IF v < 52 THEN v + 71
    ELSE IF v < 62 THEN v - 4
    ELSE IF v = 62 THEN 43 ELSE 47

\* The padding character "=".
StdPadding == 61

IsNewlineCode(c) == c = 10 \/ c = 13

\* The bytes of one quantum of n symbols (2, 3 or 4), most significant first.
StdQuantumBytes(q, n) ==
    LET v(i) == IF i <= n THEN B64StdVal(q[i]) ELSE 0
        val  == ((v(1) * 64 + v(2)) * 64 + v(3)) * 64 + v(4)
        all  == <<val \div 65536, (val \div 256) % 256, val % 256>>
    IN  SubSeq(all, 1, n - 1)

RECURSIVE decodeStdQuanta(_, _)
\* Encoding.decode over whole quanta: "=" may stand for the last one or two
\* symbols of the last quantum and nothing may follow it.
decodeStdQuanta(s, acc) ==
    IF Len(s) = 0 THEN [err |-> FALSE, bytes |-> acc]
    ELSE IF ~IsB64Std(s[1]) THEN [err |-> TRUE, bytes |-> acc]
    ELSE IF Len(s) < 2 \/ ~IsB64Std(s[2]) THEN [err |-> TRUE, bytes |-> acc]
    ELSE IF Len(s) < 3 THEN [err |-> TRUE, bytes |-> acc]
    ELSE IF s[3] = StdPadding THEN
        IF Len(s) < 4 \/ s[4] # StdPadding THEN [err |-> TRUE, bytes |-> acc]
        ELSE [err |-> Len(s) > 4, bytes |-> acc \o StdQuantumBytes(s, 2)]
    ELSE IF ~IsB64Std(s[3]) THEN [err |-> TRUE, bytes |-> acc]
    ELSE IF Len(s) < 4 THEN [err |-> TRUE, bytes |-> acc]
    ELSE IF s[4] = StdPadding THEN [err |-> Len(s) > 4, bytes |-> acc \o StdQuantumBytes(s, 3)]
    ELSE IF ~IsB64Std(s[4]) THEN [err |-> TRUE, bytes |-> acc]
    ELSE decodeStdQuanta(SliceFrom(s, 4), acc \o StdQuantumBytes(s, 4))

\* What the stream decoder makes of the symbols past the last whole quantum:
\* an unexpected end of input, or, in the releases whose Read refills with
\* io.ReadAtLeast, a plain end of input that loses them (dropsPartial).
endOfStdStream(whole, left, dropsPartial) ==
    IF whole.err \/ left = 0 THEN whole
    ELSE [err |-> ~dropsPartial, bytes |-> whole.bytes]

\* ioutil.ReadAll(base64.NewDecoder(base64.StdEncoding, strings.NewReader(s)))
\* for a text shorter than the decoder's buffer: newlines are filtered out and
\* the whole quanta decoded in one chunk.
readAllStd(s, dropsPartial) ==
    LET t == SelectSeq(s, LAMBDA c : ~IsNewlineCode(c))
    IN  IF Len(t) = 0 THEN [err |-> FALSE, bytes |-> <<>>]
        ELSE IF Len(t) < 4 THEN [err |-> TRUE, bytes |-> <<>>]
        ELSE endOfStdStream(decodeStdQuanta(SubSeq(t, 1, (Len(t) \div 4) * 4), <<>>),
                            Len(t) % 4, dropsPartial)

RECURSIVE StdEncodeToString(_)
\* base64.StdEncoding.EncodeToString
StdEncodeToString(b) ==
    LET ch(v) == B64StdChar(v)
    IN  IF Len(b) = 0 THEN <<>>
        ELSE IF Len(b) = 1 THEN
            <<ch(b[1] \div 4), ch((b[1] % 4) * 16), StdPadding, StdPadding>>
        ELSE IF Len(b) = 2 THEN
            <<ch(b[1] \div 4), ch((b[1] % 4) * 16 + b[2] \div 16), ch((b[2] % 16) * 4), StdPadding>>
        ELSE
            <<ch(b[1] \div 4), ch((b[1] % 4) * 16 + b[2] \div 16),
              ch((b[2] % 16) * 4 + b[3] \div 64), ch(b[3] % 64)>>
            \o StdEncodeToString(SliceFrom(b, 3))

-----------------------------------------------------------------------------
(* encoding/ascii85 *)

\* The digits of radix 85 are the characters "!" (33) to "u" (117); "z" (122)
\* stands for a group of four zero bytes.
IsAscii85(c) == c \in 33..117

Ascii85Val(c) == c - 33

Ascii85Char(d) == d + 33

Ascii85Zero == 122

\* A uint32 is held as its four bytes, most significant first, so that no
\* intermediate value leaves the range of the checker's integers.
RECURSIVE divmod85(_, _)
\* v / 85 and v % 85 by long division; rem is the remainder carried in.
divmod85(b, rem) ==
    IF Len(b) = 0 THEN [q |-> <<>>, r |-> rem]
    ELSE LET rest == divmod85(Tail(b), (rem * 256 + b[1]) % 85)
         IN  [q |-> <<(rem * 256 + b[1]) \div 85>> \o rest.q, r |-> rest.r]

RECURSIVE digits85(_, _)
\* The n low digits of v in radix 85, most significant first:
\* dst[i] = '!' + byte(v%85); v /= 85
digits85(b, n) ==
    IF n = 0 THEN <<>>
    ELSE LET dm == divmod85(b, 0)
         IN  digits85(dm.q, n - 1) \o <<Ascii85Char(dm.r)>>

RECURSIVE muladd85(_, _)
\* v*85 + carry in uint32 arithmetic: the carry out of the top byte is lost.
muladd85(b, carry) ==
    IF Len(b) = 0 THEN <<>>
    ELSE muladd85(SubSeq(b, 1, Len(b) - 1), (b[Len(b)] * 85 + carry) \div 256)
         \o <<(b[Len(b)] * 85 + carry) % 256>>

RECURSIVE ascii85Encode(_)
\* ascii85.Encode, which the stream encoder applies to every four bytes and,
\* on Close, to the bytes left: a zero group is "z", a group of n < 4 bytes is
\* padded with zero bytes and gives n+1 digits.
ascii85Encode(src) ==
    IF Len(src) = 0 THEN <<>>
    ELSE IF Len(src) >= 4 THEN
        (IF SubSeq(src, 1, 4) = <<0, 0, 0, 0>> THEN <<Ascii85Zero>>
         ELSE digits85(SubSeq(src, 1, 4), 5))
        \o ascii85Encode(SliceFrom(src, 4))
    ELSE SubSeq(digits85(src \o Repeat(0, 4 - Len(src)), 5), 1, Len(src) + 1)

RECURSIVE padded85(_, _)
\* The flush of a partial group: v = v*85 + 84 for each missing digit.
padded85(v, nb) == IF nb >= 5 THEN v ELSE padded85(muladd85(v, 84), nb + 1)

RECURSIVE ascii85Decode(_, _, _, _)
\* ascii85.Decode with flush, as ioutil.ReadAll(ascii85.NewDecoder(r)) applies
\* it: s is what is left, v the group so far, nb its digits, dst the bytes.
ascii85Decode(s, v, nb, dst) ==
    IF Len(s) = 0 THEN
        IF nb = 0 THEN [err |-> FALSE, bytes |-> dst]
        ELSE IF nb = 1 THEN [err |-> TRUE, bytes |-> dst]
        ELSE [err |-> FALSE, bytes |-> dst \o SubSeq(padded85(v, nb), 1, nb - 1)]
    ELSE IF s[1] <= 32 THEN ascii85Decode(Tail(s), v, nb, dst)
    ELSE IF s[1] = Ascii85Zero /\ nb = 0 THEN ascii85Decode(Tail(s), v, nb, dst \o <<0, 0, 0, 0>>)
    ELSE IF ~IsAscii85(s[1]) THEN [err |-> TRUE, bytes |-> dst]
    ELSE IF nb = 4 THEN
        ascii85Decode(Tail(s), <<0, 0, 0, 0>>, 0, dst \o muladd85(v, Ascii85Val(s[1])))
    ELSE ascii85Decode(Tail(s), muladd85(v, Ascii85Val(s[1])), nb + 1, dst)

readAllAscii85(s) == ascii85Decode(s, <<0, 0, 0, 0>>, 0, <<>>)

-----------------------------------------------------------------------------
(* encoding/json: a string as a JSON string literal and back *)

\* The quote (34) and the backslash (92).
JSONQuote == 34

JSONBackslash == 92

RECURSIVE jsonEscape(_)
\* The characters the encoder escapes when SetEscapeHTML(false): of the
\* printable ASCII the texts here are made of, the quote and the backslash.
jsonEscape(s) ==
    IF Len(s) = 0 THEN <<>>
    ELSE (IF s[1] = JSONQuote \/ s[1] = JSONBackslash THEN <<JSONBackslash, s[1]>> ELSE <<s[1]>>)
         \o jsonEscape(Tail(s))

jsonString(s) == <<JSONQuote>> \o jsonEscape(s) \o <<JSONQuote>>

RECURSIVE jsonUnescape(_, _)
\* The literal's body up to its closing quote; acc is the string so far.
\* After a backslash the quote, the backslash and the solidus (47) stand for
\* themselves; the other escapes do not occur in the texts here.
jsonUnescape(t, acc) ==
    IF Len(t) = 0 THEN [err |-> TRUE, str |-> acc]
    ELSE IF t[1] = JSONQuote THEN [err |-> Len(t) > 1, str |-> acc]
    ELSE IF t[1] = JSONBackslash THEN
        IF Len(t) >= 2 /\ t[2] \in {JSONQuote, JSONBackslash, 47}
        THEN jsonUnescape(SliceFrom(t, 2), acc \o <<t[2]>>)
        ELSE [err |-> TRUE, str |-> acc]
    ELSE jsonUnescape(Tail(t), acc \o <<t[1]>>)

jsonStringValue(t) ==
    IF Len(t) = 0 \/ t[1] # JSONQuote THEN [err |-> TRUE, str |-> <<>>]
    ELSE jsonUnescape(Tail(t), <<>>)

-----
(* LambdaTransformResponse as JSON (lambda_client.go) *)

\* The envelope {"st":..,"uh":..,"im":..}; im is the string literal as written.
MarshalJSON(r) ==
    [st |-> r.Status, uh |-> r.UpstreamHeader, im |-> jsonString(ascii85Encode(r.Image))]

\* Base64 is tried first and ascii85 only when base64 fails; an error of
\* both is the error of the call.
UnmarshalJSON(bs, dropsPartial) ==
    LET withString == jsonStringValue(bs.im)
        b64   == readAllStd(withString.str, dropsPartial)
        image == IF b64.err THEN readAllAscii85(withString.str) ELSE b64
    IN  IF withString.err
        THEN [err |-> TRUE, Status |-> 0, UpstreamHeader |-> <<>>, Image |-> <<>>]
        ELSE [err |-> image.err, Status |-> bs.st, UpstreamHeader |-> bs.uh,
              Image |-> image.bytes]

MaxImageLen == 3

\* Byte values of the repository's test image and zero.
ImageByteValues == {0, 16, 17, 92, 250, 254}

TestImage == <<254, 250, 92, 16, 17>>

\* the test image, a group of zero bytes alone and before other bytes, and an
\* image of two groups
LongerImages ==
    {TestImage, <<0, 0, 0, 0>>, <<0, 0, 0, 0, 250>>, <<250, 92, 16, 17, 0, 0, 0, 0>>,
     <<250, 250, 92, 16, 250, 92, 16>>}

RECURSIVE ImagesUpTo(_)
ImagesUpTo(n) ==
    IF n = 0 THEN {<<>>}
    ELSE LET shorter == ImagesUpTo(n - 1)
         IN  shorter \cup {Append(b, v) : b \in {x \in shorter : Len(x) = n - 1}, v \in ImageByteValues}

\* An envelope carries the image as the ascii85 text MarshalJSON writes or as
\* standard base64, the form another producer may send.
EnvelopeOf(image, encoding) ==
    IF encoding = "ascii85" THEN MarshalJSON([Status |-> 200, UpstreamHeader |-> <<>>, Image |-> image])
    ELSE [st |-> 200, uh |-> <<>>, im |-> jsonString(StdEncodeToString(image))]

UnmarshalInputs ==
    {[op |-> "UnmarshalJSON", image |-> b, encoding |-> e, envelope |-> EnvelopeOf(b, e)] :
        b \in ImagesUpTo(MaxImageLen) \cup LongerImages, e \in {"base64", "ascii85"}}

ApplyUnmarshalJSON ==
    /\ fin.op = "UnmarshalJSON" /\ ~fout.done
    /\ \E dropsPartial \in BOOLEAN :
           fout' = [done |-> TRUE, val |-> UnmarshalJSON(fin.envelope, dropsPartial)]
    /\ UNCHANGED <<fin, serverVars, poolVars>>

-----------------------------------------------------------------------------
(* The parsers on an input and on the same input with one more token *)

\* canonical strings of well-formed tokens
WellFormedOptions == {<<>>, <<"r", "9", "0">>, <<"2", "x", "3">>, <<"q", "5">>, <<"c", "x", "1", ",", "c", "w", "3">>, <<"f", "i", "t">>, <<"2", "x", "3", ",", "r", "9", "0", ",", "q", "5">>}

\* tokens ParseOptions has no case for, or whose number does not parse
MalformedTokens == {<<"r", "x", "x">>, <<"r">>, <<"q", "z">>, <<"z", "z">>, <<"a", "x", "b">>, <<"c", "x", "a">>, <<"c", "h", "z">>}

\* query strings of well-formed pairs
WellFormedForms ==
    {<<>>, <<"r", "o", "t", "a", "t", "e", "=", "9", "0">>, <<"w", "i", "d", "t", "h", "=", "2">>, <<"w", "i", "d", "t", "h", "=", "2", "&", "h", "e", "i", "g", "h", "t", "=", "3">>, <<"q", "u", "a", "l", "i", "t", "y", "=", "5">>,
     <<"c", "r", "o", "p", "=", "1", ",", "2", ",", "3", ",", "4">>, <<"s", "i", "z", "e", "=", "4", "&", "d", "p", "r", "=", "2">>}

\* pairs of an unknown key, or of a known key with a value that does not parse
MalformedPairs ==
    {<<"r", "o", "t", "a", "t", "e", "=", "a", "b", "c">>, <<"w", "i", "d", "t", "h", "=", "s">>, <<"h", "e", "i", "g", "h", "t", "=">>, <<"q", "u", "a", "l", "i", "t", "y", "=", "z">>, <<"b", "o", "g", "u", "s", "=", "1">>,
     <<"s", "i", "z", "e", "=", "s">>, <<"d", "p", "r", "=", "x">>, <<"m", "o", "d", "e", "=", "z", "z", "z">>, <<"f", "l", "i", "p", "=", "d">>, <<"f", "o", "r", "m", "a", "t", "=", "g", "i", "f">>,
     <<"c", "r", "o", "p", "=", "1", ",", "2">>, <<"c", "r", "o", "p", "=", "a", ",", "b", ",", "c", ",", "d">>}

\* str with the token after it
withToken(str, token) == IF str = <<>> THEN token ELSE str \o <<",">> \o token

\* query with the pair after it
withPair(query, pair) == IF query = <<>> THEN pair ELSE query \o <<"&">> \o pair

MalformedInputs ==
    {[op |-> "ParseOptionsWith", str |-> s, token |-> t] :
        s \in WellFormedOptions, t \in MalformedTokens}
    \cup {[op |-> "ParseFormValuesWith", query |-> q, pair |-> p] :
             q \in WellFormedForms, p \in MalformedPairs}

\* ParseOptions of the string and of the string with the token
ApplyParseOptionsWith ==
    /\ fin.op = "ParseOptionsWith" /\ ~fout.done
    /\ fout' = [done |-> TRUE,
                val |-> [without |-> ParseOptions(fin.str),
                         with |-> ParseOptions(withToken(fin.str, fin.token))]]
    /\ UNCHANGED <<fin, serverVars, poolVars>>

\* the two forms parsed with their keys visited in the same relative order
bothForms(without, with, keyOrder) ==
    [without |-> ParseFormValues(without, emptyOptions,
                                 SelectSeq(keyOrder, LAMBDA k : k \in Keys(without))),
     with |-> ParseFormValues(with, emptyOptions, keyOrder),
     keyOrder |-> keyOrder]

\* ParseFormValues of the form and of the form with the pair
ApplyParseFormValuesWith ==
    /\ fin.op = "ParseFormValuesWith" /\ ~fout.done
    /\ \E keyOrder \in Orders(Keys(parseQuery(withPair(fin.query, fin.pair)).values)) :
          fout' = [done |-> TRUE,
                   val |-> bothForms(parseQuery(fin.query).values,
                                     parseQuery(withPair(fin.query, fin.pair)).values,
                                     keyOrder)]
    /\ UNCHANGED <<fin, serverVars, poolVars>>

-----------------------------------------------------------------------------
(* cropParams on drawn crop values and image sizes.  The float64 option       *)
(* values are counted in halves: 1 is 0.5, 2 is 1.0, -3 is -1.5.             *)

Abs(f) == IF f < 0 THEN -f ELSE f

\* evaluateFloat(f, max): a value between 0 and 1 is a share of max, a
\* negative value is 0, any other value is cut to an int
evaluateFloat(f, max) ==
    IF 0 < f /\ f < 2 THEN (max * f) \div 2
    ELSE IF f < 0 THEN 0
    ELSE f \div 2

\* image.Rect: the rectangle with the coordinates put in order
Rect(x0, y0, x1, y1) ==
    [Min |-> [X |-> IF x0 > x1 THEN x1 ELSE x0, Y |-> IF y0 > y1 THEN y1 ELSE y0],
     Max |-> [X |-> IF x0 > x1 THEN x0 ELSE x1, Y |-> IF y0 > y1 THEN y0 ELSE y1]]

\* m.Bounds() of a decoded image of the given size
Bounds(size) == Rect(0, 0, size[1], size[2])

\* Rectangle.Empty
Empty(r) == r.Min.X >= r.Max.X \/ r.Min.Y >= r.Max.Y

\* Rectangle.In: every point of r is in s
In(r, s) ==
    \/ Empty(r)
    \/ /\ s.Min.X <= r.Min.X /\ r.Max.X <= s.Max.X
       /\ s.Min.Y <= r.Min.Y /\ r.Max.Y <= s.Max.Y

\* the far corner of the crop: the origin plus the extent, the whole
\* dimension for an extent of zero
farCorner(x0, w, imgW) == x0 + (IF w = 0 THEN imgW ELSE w)

\* the origin of the crop along one axis: measured from the far edge when
\* the option is negative
origin(crop, imgW) ==
    IF crop < 0 THEN imgW - evaluateFloat(Abs(crop), imgW)
    ELSE evaluateFloat(Abs(crop), imgW)

\* the far coordinate along one axis, clamped to the image
clamped(x1, imgW) == IF x1 > imgW THEN imgW ELSE x1

\* cropParams for an image of the given size, where no smart crop is asked
\* for or the analyzer returned an error
cropParams(size, opt) ==
    IF ~opt.SmartCrop /\ opt.CropX = 0 /\ opt.CropY = 0
       /\ opt.CropWidth = 0 /\ opt.CropHeight = 0
    THEN Bounds(size)
    ELSE Rect(origin(opt.CropX, size[1]),
              origin(opt.CropY, size[2]),
              clamped(farCorner(origin(opt.CropX, size[1]),
                                evaluateFloat(opt.CropWidth, size[1]), size[1]),
                      size[1]),
              clamped(farCorner(origin(opt.CropY, size[2]),
                                evaluateFloat(opt.CropHeight, size[2]), size[2]),
                      size[2]))

\* image sizes, width and height
ImageSizes == {<<4, 3>>, <<1, 1>>}

\* crop origins in halves: none, shares, inside, at and beyond the far
\* edge, and negative ones within and beyond the dimension
CropOrigins == {0, 1, 2, 6, 8, 12, -1, -4, -12}

\* crop extents in halves: none, a share, inside, beyond the image
CropExtents == {0, 1, 4, 20}

CropInputs ==
    {[op |-> "cropParams", size |-> s,
      opt |-> [emptyOptions EXCEPT !.CropX = x, !.CropY = y, !.CropWidth = w,
                                   !.CropHeight = h, !.SmartCrop = sc]] :
        s \in ImageSizes, x \in CropOrigins, y \in {0, -2, 12},
        w \in CropExtents, h \in {0, 4}, sc \in BOOLEAN}

ApplyCropParams ==
    /\ fin.op = "cropParams" /\ ~fout.done
    /\ fout' = [done |-> TRUE, val |-> cropParams(fin.size, fin.opt)]
    /\ UNCHANGED <<fin, serverVars, poolVars>>

-----------------------------------------------------------------------------
(* The functions of the request model applied to drawn inputs *)

FnInputs ==
    StripInputs \cup OptionsInputs \cup FormInputs \cup MatchInputs \cup NewRequestInputs
    \cup ValidHostInputs \cup UnmarshalInputs \cup MalformedInputs
    \cup CropInputs

InitFn ==
    /\ fin \in FnInputs
    /\ fout = [done |-> FALSE, val |-> FALSE]
    /\ idleServer /\ idlePool

NextFn ==
    \/ ApplyStripOurOptions \/ ApplyParseOptions \/ ApplyParseFormValues
    \/ ApplyBestMatchingConfig \/ ApplyNewRequest \/ ApplyValidHost
    \/ ApplyUnmarshalJSON \/ ApplyParseOptionsWith \/ ApplyParseFormValuesWith
    \/ ApplyCropParams

SpecFn == InitFn /\ [][NextFn]_vars

-----------------------------------------------------------------------------
(* The tiered cache: the -cache flags of main() and the two-tier composition *)

\* number of -cache flags given
MaxCaches == 3

CacheKeys == {"k1", "k2"}

CacheValues == {"v1", "v2"}

NoEntry == "none"

\* the backend the i-th flag names; no cache before the first flag
backend(i) == [tier |-> FALSE, index |-> i]

nilCache == backend(0)

\* twotier.New(first, second), with the flags given in the opposite order
tieredCacheSetBehind(tc, c) ==
    IF tc = nilCache THEN c ELSE [tier |-> TRUE, first |-> c, second |-> tc]

\* tieredCache.Set for the cache c a flag names: the first flag is the cache,
\* every later one becomes the second tier of twotier.New(tc.Cache, c)
tieredCacheSet(tc, c) ==
    IF tc = nilCache THEN c ELSE [tier |-> TRUE, first |-> tc, second |-> c]

RECURSIVE flagsParsed(_)
\* the cache after flag.Parse() has handed the first n flags to Set, in order
flagsParsed(n) ==
    IF n = 0 THEN nilCache ELSE tieredCacheSet(flagsParsed(n - 1), backend(n))

RECURSIVE cacheSet(_, _, _, _)
\* Set(key, value): a backend stores the value; a tiered cache writes through
\* to both of its caches.  stores[i] is the content of the i-th backend.
cacheSet(c, k, v, stores) ==
    IF ~c.tier THEN [stores EXCEPT ![c.index][k] = v]
    ELSE cacheSet(c.first, k, v, cacheSet(c.second, k, v, stores))

RECURSIVE cacheGet(_, _, _)
\* a hit of the second cache put into the first
backFilled(c, k, second) ==
    IF ~second.ok THEN second
    ELSE [second EXCEPT !.stores = cacheSet(c.first, k, second.value, second.stores)]

\* the first cache's answer, or the second's when the first misses
secondOnMiss(c, k, first) ==
    IF first.ok THEN first ELSE backFilled(c, k, cacheGet(c.second, k, first.stores))

\* Get(key): (value, ok) and the stores afterwards
cacheGet(c, k, stores) ==
    IF ~c.tier
    THEN [ok |-> stores[c.index][k] # NoEntry, value |-> stores[c.index][k], stores |-> stores]
    ELSE secondOnMiss(c, k, cacheGet(c.first, k, stores))

emptyStores(n) == [i \in 1..n |-> [k \in CacheKeys |-> NoEntry]]

noCall == [kind |-> "none", key |-> NoEntry, value |-> NoEntry, ok |-> FALSE]

\* fin holds the number of flags and the cache they compose; fout the stores
\* of the backends, the last call with its result, and the stores before it
InitCache ==
    /\ \E n \in 2..MaxCaches : fin = [op |-> "cache", flags |-> n, cache |-> flagsParsed(n)]
    /\ fout = [done |-> FALSE,
               val |-> [stores |-> emptyStores(fin.flags), before |-> emptyStores(fin.flags),
                        last |-> noCall]]
    /\ idleServer /\ idlePool

CacheSet ==
    /\ fin.op = "cache"
    /\ \E k \in CacheKeys, v \in CacheValues :
          fout' = [done |-> TRUE,
                   val |-> [stores |-> cacheSet(fin.cache, k, v, fout.val.stores),
                            before |-> fout.val.stores,
                            last |-> [kind |-> "Set", key |-> k, value |-> v, ok |-> TRUE]]]
    /\ UNCHANGED <<fin, serverVars, poolVars>>

\* the record of a Get that returned got
gotten(k, got) ==
    [done |-> TRUE,
     val |-> [stores |-> got.stores, before |-> fout.val.stores,
              last |-> [kind |-> "Get", key |-> k,
                        value |-> IF got.ok THEN got.value ELSE NoEntry, ok |-> got.ok]]]

CacheGet ==
    /\ fin.op = "cache"
    /\ \E k \in CacheKeys : fout' = gotten(k, cacheGet(fin.cache, k, fout.val.stores))
    /\ UNCHANGED <<fin, serverVars, poolVars>>

\* a backend loses an entry (eviction, expiry, deletion by another process)
CacheEvict ==
    /\ fin.op = "cache"
    /\ \E i \in 1..fin.flags, k \in CacheKeys :
          /\ fout.val.stores[i][k] # NoEntry
          /\ fout' = [done |-> TRUE,
                      val |-> [stores |-> [fout.val.stores EXCEPT ![i][k] = NoEntry],
                               before |-> fout.val.stores,
                               last |-> [noCall EXCEPT !.kind = "Evict", !.key = k]]]
    /\ UNCHANGED <<fin, serverVars, poolVars>>

NextCache == CacheSet \/ CacheGet \/ CacheEvict

SpecCache == InitCache /\ [][NextCache]_vars

-----------------------------------------------------------------------------
(* The transforming transport called with drawn outbound requests *)

\* URLs with and without a fragment, with an extension, with a query
TransportURLs ==
    {<<"h", "t", "t", "p", ":", "/", "/", "g", "/", "i">>, <<"h", "t", "t", "p", ":", "/", "/", "g", "/", "i", "#", "0", "x", "0">>, <<"h", "t", "t", "p", ":", "/", "/", "g", "/", "i", "#", "2", "x", "0">>, <<"h", "t", "t", "p", ":", "/", "/", "g", "/", "i", "#", "p", "n", "g">>,
     <<"h", "t", "t", "p", ":", "/", "/", "g", "/", "i", ".", "j", "p", "g">>, <<"h", "t", "t", "p", ":", "/", "/", "g", "/", "i", ".", "j", "p", "g", "#", "2", "x", "3", ",", "f", "i", "t">>, <<"h", "t", "t", "p", ":", "/", "/", "g", "/", "i", "?", "a", "=", "1">>,
     <<"h", "t", "t", "p", ":", "/", "/", "g", "/", "i", "?", "w", "i", "d", "t", "h", "=", "2", "&", "a", "=", "1", "#", "2", "x", "0">>, <<"h", "t", "t", "p", ":", "/", "/", "g", "/", "d", ".", "e", "/", "i", "#", "r", "9", "0">>}

\* tr.RoundTrip(req) for a request the caller built, as TestTransformingTransport
\* calls it
InitTransport ==
    /\ cfg = [access |-> openAccess, ScaleUp |-> FALSE, PrefixesToConfigs |-> {}]
    /\ pc = "fetch"
    /\ req = blankRequest
    /\ ireq = blankImageRequest
    /\ \E u \in TransportURLs : out = [blankOut EXCEPT !.url = u]
    /\ resp = blankResponse
    /\ seen = noneSeen
    /\ idleFn /\ idlePool

NextTransport == RoundTrip \/ Lambda

SpecTransport == InitTransport /\ [][NextTransport]_vars

-----------------------------------------------------------------------------
(* The per-request timeout of Proxy.ServeHTTP.  The handler writes to the    *)
(* timeout writer (resp); what has reached the client is held apart.  A      *)
(* write takes effect when it is delivered, or is dropped after the expiry.  *)

\* Timeout is zero or a positive duration
Timeouts == {0, 1}

TimeoutConfigurations ==
    {[access |-> a, ScaleUp |-> FALSE, PrefixesToConfigs |-> {}] :
        a \in {openAccess, [openAccess EXCEPT !.Whitelist = <<hGood>>]}}

\* every path is served under the time limit
timeLimitedAlways(p, path) == p.Timeout > 0

\* ServeHTTP answers the health-check and icon paths itself and wraps
\* p.serveImage in the TimeoutHandler only when p.Timeout > 0
timeLimited(p, path) ==
    path \notin HealthPaths \cup IgnoredPaths /\ p.Timeout > 0

gatewayTimeout ==
    [blankResponse EXCEPT !.status = 504, !.body = "Gateway timeout waiting for remote resource."]

\* fin is the Timeout field; fout.done says that the time limit has expired
\* and fout.val is what the client has received
InitTimeout ==
    /\ \E t \in Timeouts : fin = [op |-> "timeout", Timeout |-> t]
    /\ fout = [done |-> FALSE, val |-> blankResponse]
    /\ cfg \in TimeoutConfigurations
    /\ pc = "idle"
    /\ req = blankRequest
    /\ ireq = blankImageRequest
    /\ out = blankOut
    /\ resp = blankResponse
    /\ seen = noneSeen
    /\ idlePool

\* the time limit expires while the handler runs: the client gets the
\* gateway-timeout response and the writer is closed to the handler
Expire ==
    /\ pc \in {"received", "fetch", "lambda", "respond", "done"}
    /\ timeLimited(fin, req.Path)
    /\ ~fout.done
    /\ fout' = [done |-> TRUE, val |-> gatewayTimeout]
    /\ UNCHANGED <<fin, serverVars, poolVars>>

\* what the handler wrote reaches the client unless the limit has expired
Deliver ==
    /\ pc = "done"
    /\ fout' = IF fout.done THEN fout ELSE [fout EXCEPT !.val = resp]
    /\ pc' = "closed"
    /\ UNCHANGED <<fin, cfg, req, ireq, out, resp, seen, poolVars>>

NextTimeout ==
    Receive \/ ServeHTTP \/ RoundTrip \/ Lambda \/ Respond \/ Expire \/ Deliver

SpecTimeout == InitTimeout /\ [][NextTimeout]_vars

-----------------------------------------------------------------------------
(* C2: validSignature *)

\* sig right-padded with "=" to a multiple of 4 characters
PaddedToFour(sig) == sig \o [i \in 1..((4 - (Len(sig) % 4)) % 4) |-> "="]

\* the number of "=" a padded base64 text ends with, at most two counted
PadCount(t) ==
    IF Len(t) > 0 /\ t[Len(t)] = "="
    THEN IF Len(t) > 1 /\ t[Len(t) - 1] = "=" THEN 2 ELSE 1
    ELSE 0

\* RFC 4648: whole quanta of four symbols, padding only at the very end
IsBase64URLText(t) ==
    /\ Len(t) % 4 = 0
    /\ \A i \in 1..(Len(t) - PadCount(t)) : IsB64(t[i])

\* RFC 4648: byte b of the text, read off the 24-bit value of its quantum
Base64URLBytes(t) ==
    [b \in 1..(3 * (Len(t) \div 4) - PadCount(t)) |->
        LET q      == (b - 1) \div 3
            sym(j) == IF t[4 * q + j] = "=" THEN 0 ELSE B64Val(t[4 * q + j])
            val    == sym(1) * 262144 + sym(2) * 4096 + sym(3) * 64 + sym(4)
        IN  (val \div (256 ^ (2 - ((b - 1) % 3)))) % 256]

\* the signature as the decoder reads it: padded, line breaks skipped
SigText(sig) == SelectSeq(PaddedToFour(sig), LAMBDA c : c # "\n" /\ c # "\r")

\* C2: validSignature accepts a request if and only if its signature option,
\* right-padded with "=" to a multiple of 4 characters, base64url-decodes to
\* exactly the HMAC of the remote URL string under the key; a padded signature
\* and the same signature without its padding are judged the same; an empty,
\* undecodable or different signature is rejected.
C2_ValidSignature ==
    (fin.op = "validSignature" /\ fout.done) =>
        LET t    == SigText(fin.sig)
            want == HMAC(fin.key, fin.url)
        IN  /\ fout.val = (IsBase64URLText(t) /\ Base64URLBytes(t) = want)
            /\ (Len(fin.sig) % 4 = 0 =>
                  fout.val = validSignature(fin.key,
                                 accessRequest(fin.url, TrimPadding(fin.sig), <<>>)))
            /\ (fin.sig = <<>> => ~fout.val)
            /\ (~IsBase64URLText(t) => ~fout.val)

\* a signature sent without its padding has been accepted
C2_Witness ==
    /\ fin.op = "validSignature" /\ fout.done /\ fout.val
    /\ Len(fin.sig) % 4 # 0
    /\ fin.sig = TrimPadding(Sign(fin.key, fin.url))

-----------------------------------------------------------------------------
(* C1: Proxy.allowed *)

\* the Referer header parses to a URL whose host matches the list
RefererMatches(hosts, referer) ==
    ~Parse(referer).err /\ validHost(hosts, Parse(referer).url)

\* C1: allowed accepts exactly when (the referrer list is empty or the Referer
\* header parses to a URL whose host matches it) and (whitelist and key are
\* both empty, or the remote host matches the whitelist, or the signature is
\* valid); with a non-empty referrer list a missing, malformed or non-matching
\* Referer is rejected even for a whitelisted host or a valid signature.
C1_Allowed ==
    (fin.op = "allowed" /\ fout.done) =>
        LET p == fin.p
            r == accessRequest(fin.url, fin.sig, fin.referer)
            refOK == Len(p.Referrers) = 0 \/ RefererMatches(p.Referrers, fin.referer)
            srcOK == \/ (Len(p.Whitelist) = 0 /\ Len(p.SignatureKey) = 0)
                     \/ validHost(p.Whitelist, r.URL)
                     \/ (Len(p.SignatureKey) > 0 /\ validSignature(p.SignatureKey, r))
        IN  /\ fout.val = (refOK /\ srcOK)
            /\ (Len(p.Referrers) > 0
                  /\ (fin.referer = <<>> \/ Parse(fin.referer).err
                        \/ ~validHost(p.Referrers, Parse(fin.referer).url))
                => ~fout.val)

\* a whitelisted, validly signed request without Referer has been rejected
C1_Witness ==
    /\ fin.op = "allowed" /\ fout.done /\ ~fout.val
    /\ Len(fin.p.Referrers) > 0 /\ fin.referer = <<>>
    /\ validHost(fin.p.Whitelist, Parse(fin.url).url)
    /\ Len(fin.p.SignatureKey) > 0 /\ fin.sig = TrimPadding(Sign(fin.p.SignatureKey, fin.url))

-----------------------------------------------------------------------------
(* C3: requests signed as the README prescribes *)

\* the remote URL written in the inbound path, when the path holds it in the
\* form URL.String gives it
RemoteURLInPath(path, parsed) ==
    /\ ~parsed.err
    /\ parsed.url.Scheme \in {http, https}
    /\ URLString(parsed.url) = SliceFrom(path, 1)

\* the request carries, as its only query parameter, the signature of the
\* remote URL U in its path: base64url(HMAC(key, U))
SignedAsDocumented(key, r) ==
    /\ RemoteURLInPath(r.Path, Parse(SliceFrom(r.Path, 1)))
    /\ r.RawQuery = <<"s", "i", "g", "n", "a", "t", "u", "r", "e", "=">>
                    \o Sign(key, SliceFrom(r.Path, 1))

\* C3: with a signature key and no whitelist configured, a request for remote
\* URL U whose signature parameter is base64url(HMAC(key, U)), U without the
\* signature parameter, is not answered 403.
C3_SignedRequestPasses ==
    (/\ pc = "done"
     /\ cfg.access.SignatureKey # <<>>
     /\ cfg.access.Whitelist = <<>>
     /\ cfg.access.Referrers = <<>>
     /\ SignedAsDocumented(cfg.access.SignatureKey, req))
    => resp.status # 403

-----------------------------------------------------------------------------
(* C4: the remote URL of a Request *)

\* the scheme of the URL string s is http or https
FetchableURL(parsed) == ~parsed.err /\ parsed.url.Scheme \in {http, https}

\* C4: every Request NewRequest returns has an absolute remote URL with scheme
\* http or https, and every URL handed to the client and requested upstream
\* has such a scheme.
C4_RemoteScheme ==
    /\ ireq # blankImageRequest
          => IsAbs(ireq.URL) /\ ireq.URL.Scheme \in {http, https}
    /\ out.url # <<>> => FetchableURL(Parse(out.url))
    /\ out.heads > 0 => FetchableURL(Parse(out.headURL))

\* a Request was returned for a path resolved against a base URL, and has been
\* requested upstream
C4_Witness ==
    /\ out.heads > 0
    /\ req.Path = <<"/", "b", "/", "i", ".", "j", "p", "g">>
    /\ ireq.URL.Scheme = https
    /\ ireq.URL.Host = <<"h">>

-----------------------------------------------------------------------------
(* C5: the status of every request *)

NoFetch == out.heads = 0 /\ out.invocations = 0 /\ out.url = <<>>

\* C5: every request gets a status, in this order: 200 "OK" for the health
\* paths and 404 for the icon paths; else 400 when no Request could be built,
\* else 403 when access control rejects, else 500 when the fetch returns an
\* error, else the replayed upstream status or 304; and nothing is fetched
\* for a request answered 200, 404, 400 or 403.
C5_StatusOrder ==
    pc \in {"done", "panicked"} =>
        IF req.Path \in HealthPaths
        THEN resp.status = 200 /\ resp.body = "OK" /\ NoFetch
        ELSE IF req.Path \in IgnoredPaths THEN resp.status = 404 /\ NoFetch
        ELSE IF ireq = blankImageRequest THEN resp.status = 400 /\ NoFetch
        ELSE IF ~allowed(cfg.access, ireq) THEN resp.status = 403 /\ NoFetch
        ELSE IF out.fetchErr THEN resp.status = 500
        ELSE resp.status \in {out.status, 304}

-----------------------------------------------------------------------------
(* C6: conditional requests *)

\* the request being answered repeats the remembered one with its ETag header
\* value in If-None-Match, and upstream still has the same entity tag
ExactReplay ==
    /\ seen.any
    /\ req.IfNoneMatch = seen.ETag
    /\ ireq.Options = seen.Options
    /\ out.header.Etag = seen.remoteEtag

\* C6: a response to an upstream answer with an ETag carries a weak ETag
\* header, and a later request for the same URL and options that sends that
\* header value back in If-None-Match is answered 304 with no body.
C6_ConditionalReplay ==
    (pc = "done" /\ out.status # 0 /\ out.header.Etag # <<>>) =>
        /\ HasPrefix(resp.ETag, <<"W", "/", "\"">>)
        /\ ExactReplay => (resp.status = 304 /\ resp.body = "")

-----------------------------------------------------------------------------
(* C7: upstream error statuses *)

\* C7: when the upstream resource answered with a status >= 400, the client
\* receives exactly that status, and neither the transform engine nor the
\* remote function produced an image.
C7_UpstreamErrorStatus ==
    (pc = "done" /\ out.upstream >= 400) =>
        /\ resp.status = out.upstream
        /\ ~out.engine /\ ~out.produced

-----------------------------------------------------------------------------
(* C8: transform failures *)

\* C8: when the transform engine failed on a fetched image, the client
\* receives the untransformed upstream bytes with a non-error status.
C8_TransformFailureFallback ==
    (pc = "done" /\ out.transformFailed) =>
        /\ resp.status < 400
        /\ resp.body = "original"

-----------------------------------------------------------------------------
(* C10: ScaleUp *)

\* C10: the ScaleUp value of the options the transform engine is run with
\* equals the proxy's ScaleUp setting.
C10_ScaleUp == out.engine => out.engineOptions.ScaleUp = cfg.ScaleUp

-----------------------------------------------------------------------------
(* C9: the concurrency pool *)

\* C9: the transforms in progress never outnumber the pool's slots, every
\* task in or just out of the engine holds exactly one slot, and when no
\* transform is in progress all slots are free; a waiting task has no slot.
C9_PoolBound ==
    /\ Cardinality({t \in Tasks : tasks[t].pc = "running"}) <= maxConcurrency
    /\ sem = Cardinality(holders)
    /\ sem <= maxConcurrency
    /\ holders = {} => sem = 0

\* the pool is full, one task's transform has failed and its slot is not yet
\* released, and another task waits
C9_Witness ==
    /\ sem = maxConcurrency
    /\ \E t \in Tasks : tasks[t].pc = "failed"
    /\ \E t \in Tasks : tasks[t].pc = "waiting"
    /\ \E t \in Tasks : tasks[t].transforms > 0

-----------------------------------------------------------------------------
(* C11: no transform parameter reaches the upstream server *)

\* the query keys the switch of ParseFormValues reads
RecognizedKeys ==
    {<<"w", "i", "d", "t", "h">>, <<"h", "e", "i", "g", "h", "t">>, <<"s", "i", "z", "e">>, <<"m", "o", "d", "e">>, <<"f", "l", "i", "p">>, <<"r", "o", "t", "a", "t", "e">>, <<"q", "u", "a", "l", "i", "t", "y">>,
     <<"s", "i", "g", "n", "a", "t", "u", "r", "e">>, <<"f", "o", "r", "m", "a", "t">>, <<"c", "r", "o", "p">>, <<"d", "p", "r">>}

\* the keys in the query string of a URL given as text
QueryKeysOf(urlText) == Keys(parseQuery(Parse(urlText).url.RawQuery).values)

\* C11: the URL the transforming transport sends upstream (the HEAD probe and
\* the fetch of the remote function) has no query key that ParseFormValues
\* reads as a transform parameter: width, height, size, mode, flip, rotate,
\* quality, signature, format, crop or dpr.
C11_NoTransformKeyUpstream ==
    out.heads > 0 => QueryKeysOf(out.headURL) \cap RecognizedKeys = {}

-----------------------------------------------------------------------------
(* C12: what StripOurOptions keeps *)

\* the pairs of a query string whose key is none of keys, in query order
PairsOutside(query, keys) ==
    SelectSeq(parseQuery(query).values, LAMBDA kv : kv[1] \notin keys)

\* the ten keys the switch of StripOurOptions names
StrippedKeys == RecognizedKeys \ {<<"d", "p", "r">>}

\* the keys of pairs never decrease
SortedByKey(pairs) ==
    \A i, j \in 1..Len(pairs) : i < j => ~Less(pairs[j][1], pairs[i][1])

keptSortedByKey(kept, got) ==
    /\ ~fout.val.err /\ ~got.err
    /\ Keys(got.values) = Keys(kept)
    /\ \A k \in Keys(kept) : ValuesOf(got.values, k) = ValuesOf(kept, k)
    /\ SortedByKey(got.values)
    /\ kept = <<>> => fout.val.query = <<>>

-----------------------------------------------------------------------------
(* C13: Options survive the canonical string *)

\* Options.Equal on the whole numbers of the model
OptionsEqual(a, b) == a = b

\* C13: for every Options o whose Format is "", jpeg, png or tiff and whose
\* Signature is made of base64url characters, ParseOptions(o.String()) equals
\* o under Options.Equal.
C13_OptionsRoundTrip ==
    (/\ fin.op = "ParseOptions" /\ fout.done
     /\ fin.o.Format \in {<<>>, <<"j", "p", "e", "g">>, <<"p", "n", "g">>, <<"t", "i", "f", "f">>}
     /\ \A i \in 1..Len(fin.o.Signature) : IsB64(fin.o.Signature[i]))
    => OptionsEqual(fout.val.parsed, fin.o)

-----------------------------------------------------------------------------
(* C14: the Fit default of ParseFormValues *)

\* a pair key=value is in the query string
PairGiven(query, key, value) ==
    \E i \in 1..Len(parseQuery(query).values) : parseQuery(query).values[i] = <<key, value>>

-----------------------------------------------------------------------------
(* C15: the device pixel ratio *)

RECURSIVE LastRatio(_, _)
\* the last of the values that parses as a number > 0, d when there is none
LastRatio(values, d) ==
    IF Len(values) = 0 THEN d
    ELSE LastRatio(Tail(values),
                   IF ParseNumber(values[1]).ok /\ ParseNumber(values[1]).val > 0
                   THEN ParseNumber(values[1]).val ELSE d)

\* width, height and the crop rectangle of o multiplied by d
Scaled(o, d) ==
    [o EXCEPT !.Width = @ * d, !.Height = @ * d, !.CropX = @ * d, !.CropY = @ * d,
              !.CropWidth = @ * d, !.CropHeight = @ * d]

\* C15: a dpr > 0 multiplies width, height, cropX, cropY, cropWidth and
\* cropHeight after every other key has been processed, wherever dpr stands
\* among the keys: the result is the result for the form without dpr, the
\* other keys visited in the same order, scaled by the ratio.  A dpr that is
\* absent, unparseable or <= 0 leaves the six values unchanged.
C15_RatioAppliedLast ==
    (fin.op = "ParseFormValues" /\ fout.done) =>
        fout.val.o =
            Scaled(ParseFormValues(PairsOutside(fin.query, {<<"d", "p", "r">>}), fin.defaults,
                                   SelectSeq(fout.val.keyOrder, LAMBDA k : k # <<"d", "p", "r">>)),
                   LastRatio(ValuesOf(parseQuery(fin.query).values, <<"d", "p", "r">>), 1))

C15_Witness ==
    /\ fin.op = "ParseFormValues" /\ fout.done
    /\ fin.query = <<"w", "i", "d", "t", "h", "=", "2", "&", "d", "p", "r", "=", "2", "&", "c", "r", "o", "p", "=", "1", ",", "2", ",", "3", ",", "4">>
    /\ fout.val.keyOrder[1] = <<"d", "p", "r">>
    /\ fout.val.o.Width = 4 /\ fout.val.o.CropHeight = 8

-----------------------------------------------------------------------------
(* C16: longest prefix match *)

\* the configurations of table whose slash-trimmed prefix is a prefix of path
MatchingConfigs(table, path) ==
    {c \in table : HasPrefix(path, TrimRight(c.Prefix, "/"))}

\* those of them with the longest slash-trimmed prefix
LongestMatches(table, path) ==
    {c \in MatchingConfigs(table, path) :
        \A d \in MatchingConfigs(table, path) :
            Len(TrimRight(d.Prefix, "/")) <= Len(TrimRight(c.Prefix, "/"))}

\* the first element of order that is in S
FirstSeen(order, S) ==
    order[CHOOSE i \in 1..Len(order) :
             order[i] \in S /\ \A j \in 1..(i - 1) : order[j] \notin S]

\* C16: bestMatchingConfig returns none when no prefix matches the path and
\* otherwise the configuration with the longest slash-trimmed prefix that is a
\* prefix of the path; of several prefixes of that same trimmed length, the one
\* seen first.
C16_LongestPrefixFirstSeen ==
    (fin.op = "bestMatchingConfig" /\ fout.done) =>
        IF MatchingConfigs(fin.table, fin.path) = {}
        THEN ~fout.val.config.found
        ELSE /\ fout.val.config.found
             /\ fout.val.config.Prefix
                    = FirstSeen(fout.val.order, LongestMatches(fin.table, fin.path)).Prefix

-----------------------------------------------------------------------------
(* C17: nothing left of the path *)

\* what follows the slash-trimmed prefix of config c in path, less its leading
\* slashes
TailAfterPrefix(path, c) ==
    TrimLeft(SliceFrom(path, Len(TrimRight(c.Prefix, "/"))), "/")

\* nothing of path remains once the prefix of c, and the publication segment
\* when c strips it, are taken away
NothingLeftAfter(path, c) ==
    \/ TailAfterPrefix(path, c) = <<>>
    \/ /\ c.StripPublication
       /\ Index(TailAfterPrefix(path, c), "/") \in {0, Len(TailAfterPrefix(path, c))}

\* C17: when the request path matches a configured prefix and nothing remains
\* after the prefix (and, with strip-publication, after the publication
\* segment), NewRequest returns a malformed-URL error, answered 400: the
\* handler never crashes and no Request is built.
C17_NothingLeftIsMalformed ==
    (/\ pc \in {"done", "panicked"}
     /\ req.Path \notin HealthPaths \cup IgnoredPaths
     /\ \E c \in LongestMatches(cfg.PrefixesToConfigs, req.Path) :
           NothingLeftAfter(req.Path, c))
    => /\ pc = "done"
       /\ resp.status = 400
       /\ ireq = blankImageRequest

-----------------------------------------------------------------------------
(* C18: a prefix with a base URL *)

\* path tails that are references, each with the URL it resolves to against
\* https://imagehost.invalid/foobar/
ResolvedTails ==
    {<<<<"b", "a", "z", ".", "j", "p", "g">>, <<"h", "t", "t", "p", "s", ":", "/", "/", "i", "m", "a", "g", "e", "h", "o", "s", "t", ".", "i", "n", "v", "a", "l", "i", "d", "/", "f", "o", "o", "b", "a", "r", "/", "b", "a", "z", ".", "j", "p", "g">>>>,
     <<<<"a", "/", "b", ".", "p", "n", "g">>, <<"h", "t", "t", "p", "s", ":", "/", "/", "i", "m", "a", "g", "e", "h", "o", "s", "t", ".", "i", "n", "v", "a", "l", "i", "d", "/", "f", "o", "o", "b", "a", "r", "/", "a", "/", "b", ".", "p", "n", "g">>>>,
     <<<<"h", "t", "t", "p", ":", "/", "/", "g", "/", "i">>, <<"h", "t", "t", "p", ":", "/", "/", "g", "/", "i">>>>}

\* the options each query string asks for on top of the default options d
OptionsAsked(query, d) ==
    IF query = <<"s", "i", "z", "e", "=", "1", "2", "3">> THEN [d EXCEPT !.Width = 123, !.Height = 123, !.Fit = TRUE]
    ELSE IF query = <<"w", "i", "d", "t", "h", "=", "2", "&", "x", "=", "1">> THEN [d EXCEPT !.Width = 2]
    ELSE d

\* the text of a URL with the query string q
WithQuery(urlText, q) == IF q = <<>> THEN urlText ELSE urlText \o <<"?">> \o q

\* the Request for path tail t under configuration c
resolvedAgainstBase(c, t) ==
    /\ ~fout.val.panic /\ ~fout.val.err
    /\ URLString(fout.val.req.URL) = WithQuery(t[2], fin.query)
    /\ fout.val.req.URL.RawQuery = fin.query
    /\ fout.val.req.Options = OptionsAsked(fin.query, c.DefaultOptions)

-----------------------------------------------------------------------------
(* C19: the wildcard entry *.b.test *)

\* s is an element of the list
InList(list, s) == \E i \in 1..Len(list) : list[i] = s

\* validHost was applied to a list with *.b.test and without b.test
WildcardWithoutBareHost ==
    /\ fin.op = "validHost" /\ fout.done
    /\ InList(fin.hosts, <<"*", ".", "b", ".", "t", "e", "s", "t">>) /\ ~InList(fin.hosts, <<"b", ".", "t", "e", "s", "t">>)

\* C19 as claimed: with *.b.test and no bare b.test in the list, validHost
\* accepts x.b.test and x.y.b.test and rejects b.test itself.
C19_WildcardRejectsBareHost ==
    WildcardWithoutBareHost =>
        /\ fin.url \in {<<"h", "t", "t", "p", ":", "/", "/", "x", ".", "b", ".", "t", "e", "s", "t", "/", "i", "m", "a", "g", "e">>, <<"h", "t", "t", "p", ":", "/", "/", "x", ".", "y", ".", "b", ".", "t", "e", "s", "t", "/", "i", "m", "a", "g", "e">>} => fout.val
        /\ fin.url = <<"h", "t", "t", "p", ":", "/", "/", "b", ".", "t", "e", "s", "t", "/", "i", "m", "a", "g", "e">> => ~fout.val

\* C19 amended: with *.b.test and no bare b.test in the list, validHost accepts
\* x.b.test and x.y.b.test, and b.test itself as well.
C19_WildcardAcceptsBareHost ==
    WildcardWithoutBareHost =>
        (fin.url \in {<<"h", "t", "t", "p", ":", "/", "/", "x", ".", "b", ".", "t", "e", "s", "t", "/", "i", "m", "a", "g", "e">>, <<"h", "t", "t", "p", ":", "/", "/", "x", ".", "y", ".", "b", ".", "t", "e", "s", "t", "/", "i", "m", "a", "g", "e">>,
                      <<"h", "t", "t", "p", ":", "/", "/", "b", ".", "t", "e", "s", "t", "/", "i", "m", "a", "g", "e">>} => fout.val)

C19_Witness ==
    /\ WildcardWithoutBareHost
    /\ fin.hosts = <<<<"*", ".", "b", ".", "t", "e", "s", "t">>>> /\ fin.url = <<"h", "t", "t", "p", ":", "/", "/", "b", ".", "t", "e", "s", "t", "/", "i", "m", "a", "g", "e">>
    /\ fout.val

-----------------------------------------------------------------------------
(* C20: the image of a LambdaTransformResponse through JSON *)

\* C20: for every image B, UnmarshalJSON returns exactly B from the envelope
\* whose im field is the standard base64 of B and from the envelope whose im
\* field is the ascii85 of B, the form MarshalJSON writes.
C20_ImageRoundTrip ==
    (fin.op = "UnmarshalJSON" /\ fout.done)
        => (~fout.val.err /\ fout.val.Image = fin.image)

-----------------------------------------------------------------------------
(* C21: the HEAD probe before the remote function *)

\* the probe of this request failed: an error, or a status >= 400
ProbeFailed == out.probe.done /\ (out.probe.err \/ out.probe.status >= 400)

\* C21: the remote function is invoked for a request only after the HEAD
\* probe of that request returned without error and with a status < 400.
\* After a probe that errored or returned >= 400 the function is not invoked
\* and the response replayed has the probe's status (500 after an error) and
\* the probe's headers, Content-Type kept or left out.
C21_ProbeBeforeInvoke ==
    /\ (pc = "lambda" \/ out.invocations > 0)
           => (out.probe.done /\ ~out.probe.err /\ out.probe.status < 400)
    /\ ProbeFailed
           => /\ out.invocations = 0 /\ pc # "lambda"
              /\ pc \in {"respond", "done"}
              /\ out.status = IF out.probe.err THEN 500 ELSE out.probe.status
              /\ out.header.Etag = out.probe.header.Etag
              /\ out.header.ContentType \in {out.probe.header.ContentType, <<>>}
              /\ out.img = ""

C21_Witness ==
    /\ ProbeFailed /\ out.probe.status = 404 /\ out.probe.header.Etag # <<>>
    /\ pc = "done" /\ resp.status = 404

C21_WitnessInvoked ==
    out.invocations > 0 /\ out.probe.status = 200

-----------------------------------------------------------------------------
(* C23: the tiered cache *)

\* the backends that held key k before the last call, in flag order
Holders(k) == {i \in 1..fin.flags : fout.val.before[i][k] # NoEntry}

\* the first of them
FirstHolder(k) == CHOOSE i \in Holders(k) : \A j \in Holders(k) : i <= j

\* every entry but those of key k in the backends of S is as before the call
OnlyChanged(S, k) ==
    \A i \in 1..fin.flags, key \in CacheKeys :
        (i \notin S \/ key # k) => fout.val.stores[i][key] = fout.val.before[i][key]

\* C23: Set(k, v) stores v under k in every backend.  Get(k) returns the
\* entry of the first backend, in the order of the flags, that holds k, and
\* afterwards the backends before it hold that entry too; when none holds k
\* it reports a miss and changes no backend.  No other entry changes.
C23_TieredCache ==
    LET call == fout.val.last
    IN  /\ call.kind = "Set" =>
              /\ \A i \in 1..fin.flags : fout.val.stores[i][call.key] = call.value
              /\ OnlyChanged(1..fin.flags, call.key)
        /\ (call.kind = "Get" /\ Holders(call.key) = {}) =>
              (~call.ok /\ fout.val.stores = fout.val.before)
        /\ (call.kind = "Get" /\ Holders(call.key) # {}) =>
              /\ call.ok
              /\ call.value = fout.val.before[FirstHolder(call.key)][call.key]
              /\ \A j \in 1..FirstHolder(call.key) : fout.val.stores[j][call.key] = call.value
              /\ OnlyChanged(1..(FirstHolder(call.key) - 1), call.key)

\* a hit of the second backend that back-filled the first
C23_Witness ==
    /\ fin.op = "cache" /\ fin.flags = 2
    /\ fout.val.last.kind = "Get" /\ fout.val.last.ok
    /\ fout.val.before[1][fout.val.last.key] = NoEntry
    /\ fout.val.before[2][fout.val.last.key] = "v2"
    /\ fout.val.stores[1][fout.val.last.key] = "v2"

-----------------------------------------------------------------------------
(* C22: an outbound request without a transform directive *)

\* the outbound request has an empty fragment and RoundTrip has run
NoDirective == pc # "fetch" /\ Parse(out.url).url.Fragment = <<>>

-----------------------------------------------------------------------------
(* C24: the time limit of an image request *)

-----------------------------------------------------------------------------
(* C25: the response the transforming transport synthesizes *)

FormatMayChange(opt, upstreamHeader) ==
    \/ opt.Format # <<>>
    \/ upstreamHeader.ContentType \in {<<"i", "m", "a", "g", "e", "/", "w", "e", "b", "p">>, <<"i", "m", "a", "g", "e", "/", "t", "i", "f", "f">>}

\* C25: every response the transforming transport synthesizes has a status
\* above 0 and exactly one Content-Length, the number of bytes of its body;
\* its Content-Type is the upstream one, or none when an output format was
\* requested or the upstream type was image/webp or image/tiff
C25_SynthesizedResponse ==
    pc = "respond" =>
        /\ out.status > 0
        /\ out.header.ContentLength = <<imageLen(out.img)>>
        /\ out.header.ContentType =
              IF FormatMayChange(out.opt, out.upstreamHeader)
              THEN <<>> ELSE out.upstreamHeader.ContentType

\* a transformed image replayed with the upstream type, where the upstream
\* response had a Content-Length of its own
C25_Witness ==
    /\ pc = "respond"
    /\ out.img = "transformed"
    /\ out.upstreamHeader.ContentLength = <<imageLen("original")>>
    /\ out.header.ContentType = <<"i", "m", "a", "g", "e", "/", "j", "p", "e", "g">>

\* a response replayed without Content-Type because a format was requested
C25_WitnessFormat ==
    /\ pc = "respond"
    /\ out.opt.Format # <<>>
    /\ out.upstreamHeader.ContentType = <<"i", "m", "a", "g", "e", "/", "j", "p", "e", "g">>
    /\ out.header.ContentType = <<>>

-----------------------------------------------------------------------------
(* C26: the URL requested upstream *)

\* the URL of the HEAD probe, which is also the URL handed to the remote
\* function, parsed
probedURL == Parse(out.headURL).url

\* C26: the URL the transforming transport requests upstream has the scheme,
\* the host and the path of the resolved remote URL; only the fragment and
\* the recognized transform query keys are removed
C26_UpstreamURL ==
    out.probe.done =>
        /\ probedURL.Scheme = ireq.URL.Scheme
        /\ probedURL.Host = ireq.URL.Host
        /\ probedURL.Path = ireq.URL.Path

\* the same for remote URLs whose last path element has no extension
C26_UpstreamURLNoExt ==
    (out.probe.done /\ Ext(ireq.URL.Path) = <<>>) =>
        /\ probedURL.Scheme = ireq.URL.Scheme
        /\ probedURL.Host = ireq.URL.Host
        /\ probedURL.Path = ireq.URL.Path

-----------------------------------------------------------------------------
(* C27: unknown and malformed tokens *)

\* C27: parsing ignores an unknown or malformed token without side effect:
\* the input with such a token or pair added parses to the same Options as
\* the input without it, for ParseOptions and for ParseFormValues
C27_MalformedIgnored ==
    (fout.done /\ fin.op \in {"ParseOptionsWith", "ParseFormValuesWith"}) =>
        fout.val.with = fout.val.without

\* the same for the tokens and pairs that reach no assignment: an unknown
\* key, a token that is no number, a size or ratio that does not parse, an
\* unknown flip or format value, a crop of other than four values
C27_UnassignedIgnored ==
    /\ (fout.done /\ fin.op = "ParseOptionsWith" /\ fin.token = <<"z", "z">>) =>
          fout.val.with = fout.val.without
    /\ (fout.done /\ fin.op = "ParseFormValuesWith"
        /\ fin.pair \in {<<"b", "o", "g", "u", "s", "=", "1">>, <<"s", "i", "z", "e", "=", "s">>, <<"d", "p", "r", "=", "x">>, <<"f", "l", "i", "p", "=", "d">>,
                         <<"f", "o", "r", "m", "a", "t", "=", "g", "i", "f">>, <<"c", "r", "o", "p", "=", "1", ",", "2">>}) =>
          fout.val.with = fout.val.without

-----------------------------------------------------------------------------
(* C28: the crop rectangle *)

\* C28: cropParams returns a rectangle inside the image bounds for every
\* combination of crop values and image size
C28_CropInBounds ==
    (fout.done /\ fin.op = "cropParams") => In(fout.val, Bounds(fin.size))

\* the same for origins inside the image: a non-negative origin up to the
\* far edge, or a negative one of a magnitude up to the dimension
C28_CropInBoundsFromInside ==
    (/\ fout.done /\ fin.op = "cropParams"
     /\ Abs(fin.opt.CropX) \div 2 <= fin.size[1]
     /\ Abs(fin.opt.CropY) \div 2 <= fin.size[2]) =>
        In(fout.val, Bounds(fin.size))

-----------------------------------------------------------------------------
(* C29: the wildcard entries of a host list *)

\* the entry admits the host as the README describes it: the host itself,
\* or for an entry *.S the domain S and the hosts that end with "." and S
AdmitsAtLabel(entry, host) ==
    \/ host = entry
    \/ /\ HasPrefix(entry, <<"*", ".">>)
       /\ \/ host = SliceFrom(entry, 2)
          \/ HasSuffix(host, SliceFrom(entry, 1))

\* C29: validHost admits a host only if an entry of the list equals it or is
\* a wildcard *.S with the host equal to S or below S at a label boundary;
\* a host that only ends with the characters of S is rejected
C29_WildcardLabelBoundary ==
    (fout.done /\ fin.op = "validHost" /\ fout.val) =>
        \E i \in 1..Len(fin.hosts) :
            AdmitsAtLabel(fin.hosts[i], Parse(fin.url).url.Host)

\* the converse holds: a host the README admits is admitted by validHost
C29_AdmittedAtLabel ==
    (fout.done /\ fin.op = "validHost"
     /\ \E i \in 1..Len(fin.hosts) :
           AdmitsAtLabel(fin.hosts[i], Parse(fin.url).url.Host)) =>
        fout.val

-----------------------------------------------------------------------------
(* C30: the Cache-Tag header *)

\* serveImage wrote the response it fetched to the client
WroteFetched == pc = "done" /\ out.status > 0

\* C30: every response the proxy writes to the client after a successful
\* fetch carries the header Cache-Tag: imageproxy,imageproxy-1
C30_CacheTag == WroteFetched => resp.CacheTag = cacheTags

\* the header is set on the fetched response in each of these states
C30_CacheTagOnFetched == WroteFetched => out.header.CacheTag = cacheTags

=============================================================================
